---- MODULE Spec2Model ----
(***************************************************************************)
(* armada-engine: the match coordinator (matchMachine), the board state    *)
(* (GameEngine) and the rule sets (ClassicRuleSet, AlternatingTurnsRuleSet)*)
(* as one state machine.                                                   *)
(*                                                                         *)
(* Conventions: a JavaScript Map is a function whose DOMAIN is the set of  *)
(* keys present; a nullable field is a set with at most one element; an    *)
(* optional number that is absent is `undefined` (-1); an optional boolean *)
(* that is absent is FALSE; a position key "x,y" is the pair <<x, y>>.     *)
(***************************************************************************)
EXTENDS Integers, Sequences, FiniteSets, TLC

VARIABLES
    value,      \* the state of the matchMachine actor
    context,    \* the matchMachine context (without the engine reference)
    engine,     \* the fields of the GameEngine the context refers to
    mailbox,    \* events sent to the actor while it is processing an event
    last,       \* what the last call did: error returned, states entered, callbacks fired
    match       \* a Match that drives an engine of its own, without the actor

vars == <<value, context, engine, mailbox, last, match>>

-----------------------------------------------------------------------------
(* Configuration and inputs                                                *)

\* new Match({ boardWidth, boardHeight }): the board of the model
boardWidth == 3
boardHeight == 2

\* an absent optional number (shipId, itemId, patternCenterX/Y)
undefined == -1

\* Confirmed attacks are explored while fewer than MaxShots shots were executed
MaxShots == 2

Null == {}
Some(x) == {x}
The(s) == CHOOSE x \in s : TRUE

\* `const v = ...; body`: the value is computed once and named in the body
Let(v, Body(_)) == Body(v)

Get(map, k, default) == IF k \in DOMAIN map THEN map[k] ELSE default
Put(map, k, v) == [q \in (DOMAIN map) \cup {k} |-> IF q = k THEN v ELSE map[q]]
EmptyMap == [q \in {} |-> 0]

SINGLE_SHOT == [id |-> "single", offsets |-> << <<0, 0>> >>]
CROSS_SHOT ==
    [id |-> "cross",
     offsets |-> << <<0, 0>>, <<-1, 0>>, <<1, 0>>, <<0, -1>>, <<0, 1>> >>]

Patterns == {SINGLE_SHOT, CROSS_SHOT}

\* createCustomPattern(id, name, offsets): a pattern of the caller's making
createCustomPattern(id, offsets) == [id |-> id, offsets |-> offsets]

\* custom patterns: one that names its center twice, one of a single cell
\* under an id of its own, one of two cells under the id "single"
DOUBLE_TAP == createCustomPattern("double-tap", << <<0, 0>>, <<1, 0>>, <<0, 0>> >>)
SNIPER == createCustomPattern("sniper", << <<0, 0>> >>)
WIDE_SINGLE == createCustomPattern("single", << <<0, 0>>, <<1, 0>> >>)
CustomPatterns == {DOUBLE_TAP, SNIPER, WIDE_SINGLE}

\* centers a caller may name: the cells of the first row (the second row is
\* reached by the arms of a cross), and one position beyond each edge
Centers ==
    ((0 .. (boardWidth - 1)) \X {0})
        \cup { <<0 - 1, 0>>, <<boardWidth, 0>>, <<0, 0 - 1>>, <<0, boardHeight>> }

\* positions a call of the engine may name: the centers above and the cells
\* of the second row
Positions == Centers \cup ((0 .. (boardWidth - 1)) \X {1})

Ship(x, y, w, h) == [coords |-> <<x, y>>, width |-> w, height |-> h]

\* fleets the placement generator may hand over (ships apart by MIN_DISTANCE)
FleetOne == << Ship(1, 0, 1, 1) >>
FleetTwo == << Ship(0, 0, 2, 1), Ship(2, 0, 1, 2) >>
Setups == { [playerShips |-> FleetOne, enemyShips |-> FleetTwo] }

\* items the placement generator may hand over, on cells free of ships: one of
\* one part on the player's board, one of two parts on the enemy's board
Item(x, y, part) == [coords |-> <<x, y>>, part |-> part]
PlayerItems == << Item(0, 1, 1) >>
EnemyItems == << Item(0, 1, 2) >>

Turns == {"PLAYER_TURN", "ENEMY_TURN"}
RuleSets == {"Classic", "Alternating"}

-----------------------------------------------------------------------------
(* GameEngine                                                              *)

getShip2DCells(x, y, width, height) ==
    [i \in 1 .. (width * height) |->
        <<x + ((i - 1) % width), y + ((i - 1) \div width)>>]

getShipCellsFromShip(ship) ==
    getShip2DCells(ship.coords[1], ship.coords[2], ship.width, ship.height)

CellsOf(ship) ==
    {getShipCellsFromShip(ship)[i] : i \in DOMAIN getShipCellsFromShip(ship)}

\* cacheShipPositions: position -> shipId (array index); a later ship overwrites
ShipPositions(ships) ==
    [c \in UNION {CellsOf(ships[i]) : i \in DOMAIN ships} |->
        (CHOOSE i \in DOMAIN ships :
            /\ c \in CellsOf(ships[i])
            /\ \A j \in DOMAIN ships : c \in CellsOf(ships[j]) => j <= i) - 1]

\* cacheShipPositions: shipId -> number of cells
ShipSizes(ships) ==
    [id \in 0 .. (Len(ships) - 1) |-> Len(getShipCellsFromShip(ships[id + 1]))]

ItemCells(item) ==
    {<<item.coords[1] + i, item.coords[2]>> : i \in 0 .. (item.part - 1)}

\* cacheItemPositions: position -> itemId (array index)
ItemPositions(items) ==
    [c \in UNION {ItemCells(items[i]) : i \in DOMAIN items} |->
        (CHOOSE i \in DOMAIN items :
            /\ c \in ItemCells(items[i])
            /\ \A j \in DOMAIN items : c \in ItemCells(items[j]) => j <= i) - 1]

\* the engine after `new GameEngine(config, callbacks)`
NewEngine ==
    [currentTurn |-> "PLAYER_TURN",
     playerShips |-> << >>, enemyShips |-> << >>,
     isGameOver |-> FALSE, winner |-> "null", shotCount |-> 0,
     playerShotsMap |-> EmptyMap, enemyShotsMap |-> EmptyMap,
     playerShipHits |-> EmptyMap, enemyShipHits |-> EmptyMap,
     playerItems |-> << >>, enemyItems |-> << >>,
     playerItemHits |-> EmptyMap, enemyItemHits |-> EmptyMap,
     playerCollectedItems |-> {}, enemyCollectedItems |-> {}]

\* An engine operation works on g = [e |-> engine fields, notes |-> callbacks fired]
Notify(g, kind) == [g EXCEPT !.notes = Append(@, kind)]

notifyStateChange(g) == Notify(g, "state")

\* initializeGame that keeps the shots made and the counters
initializeGameKeepingShots(g, playerShips, enemyShips, initialTurn, playerItems, enemyItems) ==
    notifyStateChange(
        [g EXCEPT !.e.playerShips = playerShips, !.e.enemyShips = enemyShips,
                  !.e.currentTurn = initialTurn,
                  !.e.isGameOver = FALSE, !.e.winner = "null",
                  !.e.playerItems = playerItems, !.e.enemyItems = enemyItems])

initializeGame(g, playerShips, enemyShips, initialTurn, playerItems, enemyItems) ==
    notifyStateChange(
        [g EXCEPT !.e =
            [NewEngine EXCEPT
                !.playerShips = playerShips, !.enemyShips = enemyShips,
                !.currentTurn = initialTurn,
                !.playerItems = playerItems, !.enemyItems = enemyItems]])

\* resetGame that keeps the fleets
resetGameKeepingShips(g) ==
    notifyStateChange([g EXCEPT !.e = [NewEngine EXCEPT
                                            !.playerShips = g.e.playerShips,
                                            !.enemyShips = g.e.enemyShips]])

resetGame(g) == notifyStateChange([g EXCEPT !.e = NewEngine])

isValidPosition(x, y) ==
    x >= 0 /\ x < boardWidth /\ y >= 0 /\ y < boardHeight

ShotsMap(e, isPlayerShot) ==
    IF isPlayerShot THEN e.playerShotsMap ELSE e.enemyShotsMap

\* isCellShot without the lookup: every cell counts as not yet shot
isCellShotUnchecked(e, x, y, isPlayerShot) == FALSE

\* isCellShot looking the cell up among the other side's shots
isCellShotOtherSide(e, x, y, isPlayerShot) ==
    <<x, y>> \in DOMAIN ShotsMap(e, ~isPlayerShot)

isCellShot(e, x, y, isPlayerShot) == <<x, y>> \in DOMAIN ShotsMap(e, isPlayerShot)

\* the items a shot of this side may collect, and their counters
TargetItems(e, isPlayerShot) == IF isPlayerShot THEN e.enemyItems ELSE e.playerItems
TargetItemHits(e, isPlayerShot) ==
    IF isPlayerShot THEN e.enemyItemHits ELSE e.playerItemHits
TargetCollectedItems(e, isPlayerShot) ==
    IF isPlayerShot THEN e.enemyCollectedItems ELSE e.playerCollectedItems

\* the fleet a shot of this side is aimed at, and its hit counters
TargetShips(e, isPlayerShot) == IF isPlayerShot THEN e.enemyShips ELSE e.playerShips
TargetHits(e, isPlayerShot) ==
    IF isPlayerShot THEN e.enemyShipHits ELSE e.playerShipHits

\* checkShot looking the position up among the shooter's own ships
checkShotOwnFleet(e, x, y, isPlayerShot) ==
    LET shipPositions == ShipPositions(TargetShips(e, ~isPlayerShot))
    IN  IF <<x, y>> \in DOMAIN shipPositions
        THEN [hit |-> TRUE, shipId |-> shipPositions[<<x, y>>]]
        ELSE [hit |-> FALSE, shipId |-> -1]

checkShot(e, x, y, isPlayerShot) ==
    LET shipPositions == ShipPositions(TargetShips(e, isPlayerShot))
    IN  IF <<x, y>> \in DOMAIN shipPositions
        THEN [hit |-> TRUE, shipId |-> shipPositions[<<x, y>>]]
        ELSE [hit |-> FALSE, shipId |-> -1]

\* isShipDestroyed that takes any hit for destruction
isShipDestroyedOnAnyHit(e, shipId, isPlayerShot) ==
    LET ships == TargetShips(e, isPlayerShot)
        hits == Get(TargetHits(e, isPlayerShot), shipId, 0)
    IN  IF shipId >= Len(ships) THEN FALSE
        ELSE hits >= 1

isShipDestroyed(e, shipId, isPlayerShot) ==
    LET ships == TargetShips(e, isPlayerShot)
        hits == Get(TargetHits(e, isPlayerShot), shipId, 0)
        sizes == ShipSizes(ships)
    IN  IF shipId >= Len(ships) THEN FALSE
        ELSE shipId \in DOMAIN sizes /\ hits = sizes[shipId]

\* areAllShipsDestroyed that never finds a fleet destroyed
areAllShipsDestroyedNever(e, isPlayerShips) == FALSE

areAllShipsDestroyed(e, isPlayerShips) ==
    LET ships == IF isPlayerShips THEN e.playerShips ELSE e.enemyShips
    IN  IF Len(ships) = 0 THEN FALSE
        ELSE \A shipId \in 0 .. (Len(ships) - 1) :
                isShipDestroyed(e, shipId, ~isPlayerShips)

\* collectItem looking the cell up among the items of the shooter's own board
collectItemOwnBoard(e, x, y, isPlayerShot) ==
    LET items == IF isPlayerShot THEN e.playerItems ELSE e.enemyItems
        itemHits == IF isPlayerShot THEN e.playerItemHits ELSE e.enemyItemHits
        collectedSet ==
            IF isPlayerShot THEN e.playerCollectedItems ELSE e.enemyCollectedItems
        itemPositions == ItemPositions(items)
        itemId == itemPositions[<<x, y>>]
        currentHits == Get(itemHits, itemId, 0) + 1
        itemFullyCollected == currentHits = items[itemId + 1].part
        hits2 == Put(itemHits, itemId, currentHits)
        set2 == IF itemFullyCollected THEN collectedSet \cup {itemId} ELSE collectedSet
    IN  IF <<x, y>> \notin DOMAIN itemPositions THEN [e |-> e, r |-> Null]
        ELSE IF itemId \in collectedSet THEN [e |-> e, r |-> Null]
        ELSE [e |-> IF isPlayerShot
                    THEN [e EXCEPT !.playerItemHits = hits2,
                                   !.playerCollectedItems = set2]
                    ELSE [e EXCEPT !.enemyItemHits = hits2,
                                   !.enemyCollectedItems = set2],
              r |-> Some([collected |-> TRUE, itemId |-> itemId,
                          itemFullyCollected |-> itemFullyCollected])]

\* collectItem without the check for an item already fully collected
collectItemAgain(e, x, y, isPlayerShot) ==
    LET items == IF isPlayerShot THEN e.enemyItems ELSE e.playerItems
        itemHits == IF isPlayerShot THEN e.enemyItemHits ELSE e.playerItemHits
        collectedSet ==
            IF isPlayerShot THEN e.enemyCollectedItems ELSE e.playerCollectedItems
        itemPositions == ItemPositions(items)
        itemId == itemPositions[<<x, y>>]
        currentHits == Get(itemHits, itemId, 0) + 1
        itemFullyCollected == currentHits = items[itemId + 1].part
        hits2 == Put(itemHits, itemId, currentHits)
        set2 == IF itemFullyCollected THEN collectedSet \cup {itemId} ELSE collectedSet
    IN  IF <<x, y>> \notin DOMAIN itemPositions THEN [e |-> e, r |-> Null]
        ELSE [e |-> IF isPlayerShot
                    THEN [e EXCEPT !.enemyItemHits = hits2,
                                   !.enemyCollectedItems = set2]
                    ELSE [e EXCEPT !.playerItemHits = hits2,
                                   !.playerCollectedItems = set2],
              r |-> Some([collected |-> TRUE, itemId |-> itemId,
                          itemFullyCollected |-> itemFullyCollected])]

\* collectItem: the result is Null, or Some([collected, itemId, itemFullyCollected])
collectItem(e, x, y, isPlayerShot) ==
    LET items == IF isPlayerShot THEN e.enemyItems ELSE e.playerItems
        itemHits == IF isPlayerShot THEN e.enemyItemHits ELSE e.playerItemHits
        collectedSet ==
            IF isPlayerShot THEN e.enemyCollectedItems ELSE e.playerCollectedItems
        itemPositions == ItemPositions(items)
        itemId == itemPositions[<<x, y>>]
        currentHits == Get(itemHits, itemId, 0) + 1
        itemFullyCollected == currentHits = items[itemId + 1].part
        hits2 == Put(itemHits, itemId, currentHits)
        set2 == IF itemFullyCollected THEN collectedSet \cup {itemId} ELSE collectedSet
    IN  IF <<x, y>> \notin DOMAIN itemPositions THEN [e |-> e, r |-> Null]
        ELSE IF itemId \in collectedSet THEN [e |-> e, r |-> Null]
        ELSE [e |-> IF isPlayerShot
                    THEN [e EXCEPT !.enemyItemHits = hits2,
                                   !.enemyCollectedItems = set2]
                    ELSE [e EXCEPT !.playerItemHits = hits2,
                                   !.playerCollectedItems = set2],
              r |-> Some([collected |-> TRUE, itemId |-> itemId,
                          itemFullyCollected |-> itemFullyCollected])]

\* `a || b` on numbers: b when a is 0
OrElse(a, b) == IF a # 0 THEN a ELSE b

\* the Shot stored for a cell; patternInfo is Null or Some([patternId, centerX, centerY])
NewShot(x, y, result, itemCollection, patternInfo) ==
    [x |-> x, y |-> y, hit |-> result.hit,
     shipId |-> IF result.shipId >= 0 THEN result.shipId ELSE undefined,
     patternId |->
        IF patternInfo # Null /\ The(patternInfo).patternId # ""
        THEN The(patternInfo).patternId ELSE "single",
     patternCenterX |->
        IF patternInfo # Null THEN OrElse(The(patternInfo).centerX, x) ELSE x,
     patternCenterY |->
        IF patternInfo # Null THEN OrElse(The(patternInfo).centerY, y) ELSE y,
     collected |-> itemCollection # Null /\ The(itemCollection).collected,
     itemId |->
        IF itemCollection # Null /\ The(itemCollection).collected
        THEN The(itemCollection).itemId ELSE undefined,
     itemFullyCollected |->
        /\ itemCollection # Null
        /\ The(itemCollection).collected
        /\ The(itemCollection).itemFullyCollected]

\* RecordShot that keeps one shot set for both sides
RecordShotForBothSides(e, x, y, isPlayerShot, result, shot) ==
    [e EXCEPT
        !.playerShotsMap = Put(@, <<x, y>>, shot),
        !.enemyShotsMap = Put(@, <<x, y>>, shot),
        !.enemyShipHits =
            IF result.hit /\ result.shipId >= 0 /\ isPlayerShot
            THEN Put(@, result.shipId, Get(@, result.shipId, 0) + 1) ELSE @,
        !.playerShipHits =
            IF result.hit /\ result.shipId >= 0 /\ ~isPlayerShot
            THEN Put(@, result.shipId, Get(@, result.shipId, 0) + 1) ELSE @,
        !.shotCount = @ + 1]

\* shotsMap.set, shipHits.set for a hit, shotCount++
RecordShot(e, x, y, isPlayerShot, result, shot) ==
    [e EXCEPT
        !.playerShotsMap = IF isPlayerShot THEN Put(@, <<x, y>>, shot) ELSE @,
        !.enemyShotsMap = IF isPlayerShot THEN @ ELSE Put(@, <<x, y>>, shot),
        !.enemyShipHits =
            IF result.hit /\ result.shipId >= 0 /\ isPlayerShot
            THEN Put(@, result.shipId, Get(@, result.shipId, 0) + 1) ELSE @,
        !.playerShipHits =
            IF result.hit /\ result.shipId >= 0 /\ ~isPlayerShot
            THEN Put(@, result.shipId, Get(@, result.shipId, 0) + 1) ELSE @,
        !.shotCount = @ + 1]

\* the result is [g, r] with r the ShotResult
executeShot(g, x, y, isPlayerShot, suppressCallback, patternInfo) ==
    IF isCellShot(g.e, x, y, isPlayerShot)
    THEN [g |-> g,
          r |-> [success |-> FALSE, error |-> "Cell already shot",
                 hit |-> FALSE, shipId |-> -1, shipDestroyed |-> FALSE,
                 collected |-> FALSE, itemId |-> undefined,
                 itemFullyCollected |-> FALSE]]
    ELSE
    Let(checkShot(g.e, x, y, isPlayerShot), LAMBDA result :
    Let(IF ~result.hit THEN collectItem(g.e, x, y, isPlayerShot)
        ELSE [e |-> g.e, r |-> Null], LAMBDA coll :
    Let(RecordShot(coll.e, x, y, isPlayerShot, result,
                   NewShot(x, y, result, coll.r, patternInfo)), LAMBDA e3 :
        [g |-> notifyStateChange(
                    IF ~suppressCallback THEN Notify([g EXCEPT !.e = e3], "shot")
                    ELSE [g EXCEPT !.e = e3]),
         r |-> [success |-> TRUE, error |-> "",
                hit |-> result.hit, shipId |-> result.shipId,
                shipDestroyed |->
                    IF result.hit /\ result.shipId >= 0
                    THEN isShipDestroyed(e3, result.shipId, isPlayerShot)
                    ELSE FALSE,
                collected |-> coll.r # Null /\ The(coll.r).collected,
                itemId |-> IF coll.r # Null THEN The(coll.r).itemId ELSE undefined,
                itemFullyCollected |->
                    coll.r # Null /\ The(coll.r).itemFullyCollected]])))

\* one entry of ShotPatternResult.shots
Entry(x, y, hit, shipId, shipDestroyed, executed, patternId, cx, cy, collected, itemId, itemFullyCollected) ==
    [x |-> x, y |-> y, hit |-> hit, shipId |-> shipId,
     shipDestroyed |-> shipDestroyed, executed |-> executed,
     patternId |-> patternId, patternCenterX |-> cx, patternCenterY |-> cy,
     collected |-> collected, itemId |-> itemId,
     itemFullyCollected |-> itemFullyCollected]

\* The `for (const offset of pattern.offsets)` loop of executeShotPattern:
\* PatternLoop is the loop from offset i on, ExecutedShot what follows the
\* executeShot call sr of offset i
RECURSIVE PatternLoop(_, _, _, _, _, _, _)
RECURSIVE ExecutedShot(_, _, _, _, _, _, _)

ExecutedShot(sr, shots, i, centerX, centerY, pattern, isPlayerShot) ==
    PatternLoop(sr.g,
        Append(shots,
            Entry(centerX + pattern.offsets[i][1], centerY + pattern.offsets[i][2],
                  sr.r.hit, IF sr.r.shipId >= 0 THEN sr.r.shipId ELSE undefined,
                  sr.r.shipDestroyed, TRUE, pattern.id, centerX, centerY,
                  sr.r.collected, sr.r.itemId, sr.r.itemFullyCollected)),
        i + 1, centerX, centerY, pattern, isPlayerShot)

\* the loop giving up at the first offset that is out of bounds or already shot
PatternLoopAborting(g, shots, i, centerX, centerY, pattern, isPlayerShot) ==
    IF i > Len(pattern.offsets) THEN [g |-> g, shots |-> shots]
    ELSE IF ~isValidPosition(centerX + pattern.offsets[i][1],
                             centerY + pattern.offsets[i][2])
            \/ isCellShot(g.e, centerX + pattern.offsets[i][1],
                          centerY + pattern.offsets[i][2], isPlayerShot)
    THEN [g |-> g, shots |-> shots]
    ELSE ExecutedShot(
            executeShot(g, centerX + pattern.offsets[i][1],
                        centerY + pattern.offsets[i][2], isPlayerShot, TRUE,
                        Some([patternId |-> pattern.id,
                              centerX |-> centerX, centerY |-> centerY])),
            shots, i, centerX, centerY, pattern, isPlayerShot)

PatternLoop(g, shots, i, centerX, centerY, pattern, isPlayerShot) ==
    IF i > Len(pattern.offsets) THEN [g |-> g, shots |-> shots]
    ELSE
        LET targetX == centerX + pattern.offsets[i][1]
            targetY == centerY + pattern.offsets[i][2]
            existingShot == ShotsMap(g.e, isPlayerShot)[<<targetX, targetY>>]
        IN  IF ~isValidPosition(targetX, targetY)
            THEN PatternLoop(g,
                    Append(shots, Entry(targetX, targetY, FALSE, undefined, FALSE,
                                        FALSE, "", undefined, undefined,
                                        FALSE, undefined, FALSE)),
                    i + 1, centerX, centerY, pattern, isPlayerShot)
            ELSE IF isCellShot(g.e, targetX, targetY, isPlayerShot)
            THEN PatternLoop(g,
                    Append(shots, Entry(targetX, targetY, existingShot.hit,
                                        existingShot.shipId, FALSE,
                                        FALSE, "", undefined, undefined,
                                        FALSE, undefined, FALSE)),
                    i + 1, centerX, centerY, pattern, isPlayerShot)
            ELSE ExecutedShot(
                    executeShot(g, targetX, targetY, isPlayerShot, TRUE,
                                Some([patternId |-> pattern.id,
                                      centerX |-> centerX, centerY |-> centerY])),
                    shots, i, centerX, centerY, pattern, isPlayerShot)

\* what executeShotPattern does after the loop: onShot for the center, the result
PatternResult(loop) ==
    [g |-> Notify(loop.g, "shot"),
     r |-> [success |-> TRUE, error |-> "", shots |-> loop.shots,
            isGameOver |-> loop.g.e.isGameOver, winner |-> loop.g.e.winner]]

\* executeShotPattern without the game-over guard
executeShotPatternAfterGameOver(g, centerX, centerY, pattern, isPlayerShot) ==
    PatternResult(PatternLoop(g, << >>, 1, centerX, centerY, pattern, isPlayerShot))

\* the result is [g, r] with r = [success, error, shots, isGameOver, winner];
\* the engine is constructed with callbacks, so onShot is set
executeShotPattern(g, centerX, centerY, pattern, isPlayerShot) ==
    IF g.e.isGameOver
    THEN [g |-> g,
          r |-> [success |-> FALSE, error |-> "Game is already over",
                 shots |-> << >>, isGameOver |-> TRUE, winner |-> g.e.winner]]
    ELSE PatternResult(PatternLoop(g, << >>, 1, centerX, centerY, pattern,
                                   isPlayerShot))

\* toggleTurn that fires its callbacks and leaves the turn flag as it was
toggleTurnKeepingTurn(g) == notifyStateChange(Notify(g, "turn"))

\* setPlayerTurn / setEnemyTurn: the turn callback, then the state callback
toggleTurn(g) ==
    notifyStateChange(
        Notify([g EXCEPT !.e.currentTurn =
                    IF @ = "PLAYER_TURN" THEN "ENEMY_TURN" ELSE "PLAYER_TURN"],
               "turn"))

\* setGameOver that records the winner but leaves isGameOver unset
setGameOverWinnerOnly(g, winner) ==
    notifyStateChange(Notify([g EXCEPT !.e.winner = winner], "gameOver"))

setGameOver(g, winner) ==
    notifyStateChange(
        Notify([g EXCEPT !.e.winner = winner, !.e.isGameOver = TRUE], "gameOver"))

\* shots.forEach(shotsMap.set(posKey(shot.x, shot.y), shot)): a later shot of
\* the list replaces an earlier one of the same cell
LoadShots(shots) ==
    [c \in {<<shots[i].x, shots[i].y>> : i \in DOMAIN shots} |->
        shots[CHOOSE i \in DOMAIN shots :
                /\ <<shots[i].x, shots[i].y>> = c
                /\ \A j \in DOMAIN shots : <<shots[j].x, shots[j].y>> = c => j <= i]]

\* the hit counters the forEach builds: one per ship id named by a hit
LoadHits(shots) ==
    [id \in {shots[i].shipId : i \in {j \in DOMAIN shots :
                    shots[j].hit /\ shots[j].shipId # undefined}} |->
        Cardinality({i \in DOMAIN shots : shots[i].hit /\ shots[i].shipId = id})]

setPlayerShots(g, shots) ==
    notifyStateChange(
        [g EXCEPT !.e.playerShotsMap = LoadShots(shots),
                  !.e.playerShipHits = LoadHits(shots),
                  !.e.shotCount = Cardinality(DOMAIN LoadShots(shots))
                                    + Cardinality(DOMAIN g.e.enemyShotsMap)])

setEnemyShots(g, shots) ==
    notifyStateChange(
        [g EXCEPT !.e.enemyShotsMap = LoadShots(shots),
                  !.e.enemyShipHits = LoadHits(shots),
                  !.e.shotCount = Cardinality(DOMAIN g.e.playerShotsMap)
                                    + Cardinality(DOMAIN LoadShots(shots))])

\* the fields of GameEngineState the rule sets and guards read
getState(e) ==
    [currentTurn |-> e.currentTurn,
     isGameOver |-> e.isGameOver,
     winner |-> e.winner,
     shotCount |-> e.shotCount,
     areAllPlayerShipsDestroyed |-> areAllShipsDestroyed(e, TRUE),
     areAllEnemyShipsDestroyed |-> areAllShipsDestroyed(e, FALSE)]

-----------------------------------------------------------------------------
(* Rule sets                                                               *)

Decision(shouldEndTurn, shouldToggleTurn, canShootAgain, reason) ==
    [shouldEndTurn |-> shouldEndTurn, shouldToggleTurn |-> shouldToggleTurn,
     canShootAgain |-> canShootAgain, reason |-> reason]

\* anyHit taken over all entries, executed or not
anyHitOfAnyEntry(attackResult) ==
    \E i \in DOMAIN attackResult.shots : attackResult.shots[i].hit

anyHit(attackResult) ==
    \E i \in DOMAIN attackResult.shots :
        attackResult.shots[i].hit /\ attackResult.shots[i].executed

anyShipDestroyed(attackResult) ==
    \E i \in DOMAIN attackResult.shots :
        attackResult.shots[i].shipDestroyed /\ attackResult.shots[i].executed

\* ClassicRuleSet.decideTurn without the ship-destroyed case
ClassicDecideTurnHitContinues(attackResult, currentState) ==
    IF currentState.isGameOver THEN Decision(TRUE, FALSE, FALSE, "Game over")
    ELSE IF anyHit(attackResult)
    THEN Decision(FALSE, FALSE, TRUE, "Hit - shoot again")
    ELSE Decision(TRUE, TRUE, FALSE, "Miss - turn ends")

ClassicDecideTurn(attackResult, currentState) ==
    IF currentState.isGameOver THEN Decision(TRUE, FALSE, FALSE, "Game over")
    ELSE IF anyHit(attackResult)
    THEN IF anyShipDestroyed(attackResult)
         THEN Decision(TRUE, TRUE, FALSE, "Ship destroyed - turn ends")
         ELSE Decision(FALSE, FALSE, TRUE, "Hit - shoot again")
    ELSE Decision(TRUE, TRUE, FALSE, "Miss - turn ends")

\* AlternatingTurnsRuleSet.decideTurn that lets the side continue after a hit
AlternatingDecideTurnHitContinues(attackResult, currentState) ==
    IF currentState.isGameOver THEN Decision(TRUE, FALSE, FALSE, "Game over")
    ELSE IF anyHit(attackResult)
    THEN Decision(FALSE, FALSE, TRUE, "Hit - turn ends")
    ELSE Decision(TRUE, TRUE, FALSE, "Miss - turn ends")

AlternatingDecideTurn(attackResult, currentState) ==
    IF currentState.isGameOver THEN Decision(TRUE, FALSE, FALSE, "Game over")
    ELSE Decision(TRUE, TRUE, FALSE,
                  IF anyHit(attackResult) THEN "Hit - turn ends"
                  ELSE "Miss - turn ends")

decideTurn(ruleSet, attackResult, currentState) ==
    IF ruleSet = "Classic" THEN ClassicDecideTurn(attackResult, currentState)
    ELSE AlternatingDecideTurn(attackResult, currentState)

\* checkGameOver that names the side whose ships are destroyed as the winner
checkGameOverLoserWins(ruleSet, state) ==
    IF state.areAllPlayerShipsDestroyed
    THEN [isGameOver |-> TRUE, winner |-> "player"]
    ELSE IF state.areAllEnemyShipsDestroyed
    THEN [isGameOver |-> TRUE, winner |-> "enemy"]
    ELSE [isGameOver |-> FALSE, winner |-> "null"]

\* ClassicRuleSet.checkGameOver and AlternatingTurnsRuleSet.checkGameOver agree
checkGameOver(ruleSet, state) ==
    IF state.areAllPlayerShipsDestroyed
    THEN [isGameOver |-> TRUE, winner |-> "enemy"]
    ELSE IF state.areAllEnemyShipsDestroyed
    THEN [isGameOver |-> TRUE, winner |-> "player"]
    ELSE [isGameOver |-> FALSE, winner |-> "null"]

-----------------------------------------------------------------------------
(* matchMachine                                                            *)

\* A MatchMachineEvent; the fields an event type does not carry hold defaults
Event(type, centerX, centerY, pattern, isPlayerShot, setup, initialTurn, ruleSet) ==
    [type |-> type, centerX |-> centerX, centerY |-> centerY, pattern |-> pattern,
     isPlayerShot |-> isPlayerShot, playerShips |-> setup.playerShips,
     enemyShips |-> setup.enemyShips, initialTurn |-> initialTurn,
     ruleSet |-> ruleSet]

NoSetup == [playerShips |-> << >>, enemyShips |-> << >>]

INITIALIZE(setup, initialTurn) ==
    Event("INITIALIZE", 0, 0, SINGLE_SHOT, TRUE, setup, initialTurn, "Classic")
PLAN_SHOT(centerX, centerY, pattern, isPlayerShot) ==
    Event("PLAN_SHOT", centerX, centerY, pattern, isPlayerShot, NoSetup,
          "PLAYER_TURN", "Classic")
CONFIRM_ATTACK ==
    Event("CONFIRM_ATTACK", 0, 0, SINGLE_SHOT, TRUE, NoSetup, "PLAYER_TURN", "Classic")
CANCEL_PLAN ==
    Event("CANCEL_PLAN", 0, 0, SINGLE_SHOT, TRUE, NoSetup, "PLAYER_TURN", "Classic")
SET_RULESET(ruleSet) ==
    Event("SET_RULESET", 0, 0, SINGLE_SHOT, TRUE, NoSetup, "PLAYER_TURN", ruleSet)
RESET ==
    Event("RESET", 0, 0, SINGLE_SHOT, TRUE, NoSetup, "PLAYER_TURN", "Classic")

\* the context after createActor(matchMachine, { engine, ruleSet })
InitialContext ==
    [ruleSet |-> "Classic", pendingPlan |-> Null, lastAttackResult |-> Null,
     lastTurnDecision |-> Null, planError |-> "null"]

\* guard isValidPlan
isValidPlan(e, event) ==
    IF event.type # "PLAN_SHOT" THEN FALSE
    ELSE IF ~isValidPosition(event.centerX, event.centerY) THEN FALSE
    ELSE IF event.pattern.id = "single"
            /\ isCellShot(e, event.centerX, event.centerY, event.isPlayerShot)
    THEN FALSE
    ELSE TRUE

\* guard isGameOver
isGameOver(e) == getState(e).isGameOver

\* The actions work on m = [value, context, g, trace, taken]

\* storePlan that keeps the center and the side but stores the default pattern
storePlanDefaultPattern(m, event) ==
    IF event.type # "PLAN_SHOT" THEN m
    ELSE [m EXCEPT
            !.context.pendingPlan =
                Some([centerX |-> event.centerX, centerY |-> event.centerY,
                      pattern |-> SINGLE_SHOT,
                      isPlayerShot |-> event.isPlayerShot]),
            !.context.planError = "null"]

storePlan(m, event) ==
    IF event.type # "PLAN_SHOT" THEN m
    ELSE [m EXCEPT
            !.context.pendingPlan =
                Some([centerX |-> event.centerX, centerY |-> event.centerY,
                      pattern |-> event.pattern,
                      isPlayerShot |-> event.isPlayerShot]),
            !.context.planError = "null"]

\* setPlanError that also drops the plan stored before
setPlanErrorDroppingPlan(m, event) ==
    IF event.type # "PLAN_SHOT" THEN m
    ELSE [m EXCEPT
            !.context.pendingPlan = Null,
            !.context.planError =
                IF ~isValidPosition(event.centerX, event.centerY)
                THEN "Invalid position"
                ELSE IF isCellShot(m.g.e, event.centerX, event.centerY,
                                   event.isPlayerShot)
                THEN "Cell already shot"
                ELSE "Invalid plan"]

setPlanError(m, event) ==
    IF event.type # "PLAN_SHOT" THEN m
    ELSE [m EXCEPT !.context.planError =
            IF ~isValidPosition(event.centerX, event.centerY)
            THEN "Invalid position"
            ELSE IF isCellShot(m.g.e, event.centerX, event.centerY,
                               event.isPlayerShot)
            THEN "Cell already shot"
            ELSE "Invalid plan"]

\* clearPlan that leaves the plan stored
clearPlanKeepingPlan(m) == [m EXCEPT !.context.planError = "null"]

clearPlan(m) ==
    [m EXCEPT !.context.pendingPlan = Null, !.context.planError = "null"]

\* executeAttack: what the assign returns once executeShotPattern has run
StoreAttackResult(m, res) ==
    [m EXCEPT !.g = res.g,
              !.context.pendingPlan = Null,
              !.context.lastAttackResult = Some(res.r)]

executeAttack(m) ==
    IF m.context.pendingPlan = Null THEN m
    ELSE
        LET plan == The(m.context.pendingPlan)
        IN  StoreAttackResult(m,
                executeShotPattern(m.g, plan.centerX, plan.centerY,
                                   plan.pattern, plan.isPlayerShot))

\* resolveTurn that consults checkGameOver before it toggles the turn and leaves
\* the turn alone in a match that is over
resolveTurnGameOverFirst(m) ==
    IF m.context.lastAttackResult = Null THEN m
    ELSE
    Let(getState(m.g.e), LAMBDA stateAfterAttack :
    Let(decideTurn(m.context.ruleSet, The(m.context.lastAttackResult),
                   stateAfterAttack), LAMBDA lastTurnDecision :
    Let(checkGameOver(m.context.ruleSet, stateAfterAttack), LAMBDA gameOverDecision :
        [m EXCEPT
            !.g = IF gameOverDecision.isGameOver /\ gameOverDecision.winner # "null"
                  THEN setGameOver(m.g, gameOverDecision.winner)
                  ELSE IF lastTurnDecision.shouldToggleTurn THEN toggleTurn(m.g)
                  ELSE m.g,
            !.context.lastTurnDecision = Some(lastTurnDecision)])))

resolveTurn(m) ==
    IF m.context.lastAttackResult = Null THEN m
    ELSE
    Let(getState(m.g.e), LAMBDA stateAfterAttack :
    Let(decideTurn(m.context.ruleSet, The(m.context.lastAttackResult),
                   stateAfterAttack), LAMBDA lastTurnDecision :
    Let(IF lastTurnDecision.shouldToggleTurn THEN toggleTurn(m.g) ELSE m.g,
        LAMBDA g1 :
    Let(getState(g1.e), LAMBDA stateAfterTurn :
    Let(checkGameOver(m.context.ruleSet, stateAfterTurn), LAMBDA gameOverDecision :
        [m EXCEPT
            !.g = IF /\ ~stateAfterTurn.isGameOver
                     /\ gameOverDecision.isGameOver
                     /\ gameOverDecision.winner # "null"
                  THEN setGameOver(g1, gameOverDecision.winner)
                  ELSE g1,
            !.context.lastTurnDecision = Some(lastTurnDecision)])))))

\* the machine's INITIALIZE hands over ships and the starting turn, no items
initializeEngine(m, event) ==
    IF event.type # "INITIALIZE" THEN m
    ELSE [m EXCEPT
            !.g = initializeGame(m.g, event.playerShips, event.enemyShips,
                                 event.initialTurn, << >>, << >>),
            !.context.planError = "null",
            !.context.lastAttackResult = Null,
            !.context.lastTurnDecision = Null]

resetEngine(m) ==
    [m EXCEPT !.g = resetGame(m.g),
              !.context.pendingPlan = Null,
              !.context.lastAttackResult = Null,
              !.context.lastTurnDecision = Null,
              !.context.planError = "null"]

\* setRuleSet that also clears the board
setRuleSetClearingBoard(m, event) ==
    IF event.type # "SET_RULESET" THEN m
    ELSE [m EXCEPT !.context.ruleSet = event.ruleSet, !.g = resetGame(m.g)]

\* setRuleSet that keeps the policy in place
setRuleSetKeepingPolicy(m, event) == m

setRuleSet(m, event) ==
    IF event.type # "SET_RULESET" THEN m
    ELSE [m EXCEPT !.context.ruleSet = event.ruleSet]

\* entering a state runs its entry action and records the state in the trace
Enter(m, target) ==
    LET n == [m EXCEPT !.value = target, !.trace = Append(@, target),
                       !.taken = TRUE]
    IN  IF target = "attacking" THEN executeAttack(n)
        ELSE IF target = "resolvingTurn" THEN resolveTurn(n)
        ELSE n

\* a transition without target: the actions run, the state is not re-entered
Stay(m) == [m EXCEPT !.taken = TRUE]

\* a selected transition: the machine after its actions, and its target
\* ("stay": a transition without target; "none": no transition is enabled)
Step(m, target) == [m |-> m, target |-> target]

\* transitions with CONFIRM_ATTACK handled in planning as it is in planned
SelectConfirmInPlanning(m, event) ==
    IF m.value = "idle"
    THEN IF event.type = "INITIALIZE"
         THEN Step(initializeEngine(m, event), "planning")
         ELSE Step(m, "none")
    ELSE IF m.value = "planning" /\ event.type = "PLAN_SHOT"
    THEN IF isValidPlan(m.g.e, event)
         THEN Step(storePlan(m, event), "planned")
         ELSE Step(setPlanError(m, event), "stay")
    ELSE IF m.value = "planned" /\ event.type = "PLAN_SHOT"
    THEN IF isValidPlan(m.g.e, event)
         THEN Step(storePlan(clearPlan(m), event), "planned")
         ELSE Step(setPlanError(m, event), "stay")
    ELSE IF m.value \in {"planning", "planned"} /\ event.type = "CONFIRM_ATTACK"
    THEN Step(m, "attacking")
    ELSE IF m.value = "planned" /\ event.type = "CANCEL_PLAN"
    THEN Step(clearPlan(m), "planning")
    ELSE IF m.value \in {"planning", "planned", "attacking", "resolvingTurn"}
    THEN IF event.type = "INITIALIZE"
         THEN Step(initializeEngine(m, event), "planning")
         ELSE IF event.type = "RESET" THEN Step(resetEngine(m), "idle")
         ELSE IF event.type = "SET_RULESET" THEN Step(setRuleSet(m, event), "stay")
         ELSE Step(m, "none")
    ELSE Step(m, "none")

\* the transition the machine selects for an event: a state's own handlers,
\* then those of active; idle handles INITIALIZE alone, gameOver is final
Select(m, event) ==
    IF m.value = "idle"
    THEN IF event.type = "INITIALIZE"
         THEN Step(initializeEngine(m, event), "planning")
         ELSE Step(m, "none")
    ELSE IF m.value = "planning" /\ event.type = "PLAN_SHOT"
    THEN IF isValidPlan(m.g.e, event)
         THEN Step(storePlan(m, event), "planned")
         ELSE Step(setPlanError(m, event), "stay")
    ELSE IF m.value = "planned" /\ event.type = "PLAN_SHOT"
    THEN IF isValidPlan(m.g.e, event)
         THEN Step(storePlan(clearPlan(m), event), "planned")
         ELSE Step(setPlanError(m, event), "stay")
    ELSE IF m.value = "planned" /\ event.type = "CONFIRM_ATTACK"
    THEN Step(m, "attacking")
    ELSE IF m.value = "planned" /\ event.type = "CANCEL_PLAN"
    THEN Step(clearPlan(m), "planning")
    ELSE IF m.value \in {"planning", "planned", "attacking", "resolvingTurn"}
    THEN IF event.type = "INITIALIZE"
         THEN Step(initializeEngine(m, event), "planning")
         ELSE IF event.type = "RESET" THEN Step(resetEngine(m), "idle")
         ELSE IF event.type = "SET_RULESET" THEN Step(setRuleSet(m, event), "stay")
         ELSE Step(m, "none")
    ELSE Step(m, "none")

\* taking the selected transition: its target state, if any, is entered
Take(step) ==
    IF step.target = "none" THEN step.m
    ELSE IF step.target = "stay" THEN Stay(step.m)
    ELSE Enter(step.m, step.target)

\* the microstep of a machine whose gameOver state still answers RESET
TransitionLeavingGameOver(m, event) ==
    IF m.value = "gameOver" /\ event.type = "RESET"
    THEN Enter(resetEngine(m), "idle")
    ELSE Take(Select(m, event))

\* the microstep the machine takes on an event (none: m unchanged)
Transition(m, event) == Take(Select(m, event))

\* eventless transitions with attacking left to wait for an event
AlwaysAfterResolvingOnly(m) ==
    IF m.value = "resolvingTurn"
    THEN IF isGameOver(m.g.e) THEN Enter(m, "gameOver")
         ELSE Enter(m, "planning")
    ELSE m

\* the target of the eventless transition of a transient state
AlwaysTarget(m) ==
    IF m.value = "attacking" THEN "resolvingTurn"
    ELSE IF isGameOver(m.g.e) THEN "gameOver"
    ELSE "planning"

\* the eventless (`always`) transitions of the transient states
Always(m) ==
    IF m.value \in {"attacking", "resolvingTurn"} THEN Enter(m, AlwaysTarget(m))
    ELSE m

\* a macrostep: eventless transitions are taken until none is enabled
RECURSIVE Settle(_)
Settled(m, n) == IF n = m THEN m ELSE Settle(n)
Settle(m) == Settled(m, Always(m))

-----------------------------------------------------------------------------
(* Match: the public calls                                                 *)

\* the machine snapshot a call starts from
Snapshot ==
    [value |-> value, context |-> context,
     g |-> [e |-> engine, notes |-> << >>],
     trace |-> << >>, taken |-> FALSE]

\* actor.send(event): the event is processed to completion
Send(event) == Settle(Transition(Snapshot, event))

\* what a call hands back and what its observers saw
Report(error, r) == [error |-> error, trace |-> r.trace, notes |-> r.g.notes]

Commit(r) ==
    /\ value' = r.value
    /\ context' = r.context
    /\ engine' = r.g.e

\* events an observer callback may send back while an attack is processed
ReentrantEvents ==
    { PLAN_SHOT(0, 0, SINGLE_SHOT, TRUE), CONFIRM_ATTACK, CANCEL_PLAN, RESET,
      SET_RULESET("Alternating"),
      INITIALIZE([playerShips |-> FleetOne, enemyShips |-> FleetTwo],
                 "PLAYER_TURN") }

\* new Match(): an engine of its own, no pending plan, the default rule set;
\* error is what its last call returned
NewMatch ==
    [e |-> NewEngine, pendingPlan |-> Null, ruleSet |-> "Classic", error |-> ""]

Init ==
    /\ value = "idle"
    /\ context = InitialContext
    /\ engine = NewEngine
    /\ mailbox = << >>
    /\ last = [error |-> "", trace |-> << >>, notes |-> << >>]
    /\ match = NewMatch

\* initializeMatch(playerShips, enemyShips, initialTurn)
InitializeMatch(setup, initialTurn) ==
    /\ mailbox = << >>
    /\ \E r \in {Send(INITIALIZE(setup, initialTurn))} :
        /\ Commit(r)
        /\ last' = [Report("", r) EXCEPT !.notes = Append(@, "matchStart")]
    /\ UNCHANGED <<mailbox, match>>

\* planShot(centerX, centerY, pattern, isPlayerShot)
PlanShot(centerX, centerY, pattern, isPlayerShot) ==
    /\ mailbox = << >>
    /\ \E r \in {Send(PLAN_SHOT(centerX, centerY, pattern, isPlayerShot))} :
        /\ Commit(r)
        /\ last' = Report(IF r.context.planError = "null" THEN ""
                          ELSE r.context.planError, r)
    /\ UNCHANGED <<mailbox, match>>

\* AttackError.NoAttackPlanned
NoAttackPlanned == "No attack planned. Call planShot() first."

\* confirmAttack() with no plan stored: the call reports that no attack is
\* planned; what CONFIRM_ATTACK does without a plan is the machine's to decide
ConfirmWithoutPlan ==
    /\ mailbox = << >>
    /\ context.pendingPlan = Null
    /\ \E r \in {Send(CONFIRM_ATTACK)} :
        /\ Commit(r)
        /\ last' = Report(NoAttackPlanned, r)
    /\ UNCHANGED <<mailbox, match>>

\* confirmAttack() with a plan stored; an observer may send one event back
ConfirmAttack ==
    /\ mailbox = << >>
    /\ context.pendingPlan # Null
    /\ engine.shotCount < MaxShots
    /\ \E r \in {Send(CONFIRM_ATTACK)} :
        /\ Commit(r)
        /\ last' = Report(IF r.context.lastAttackResult # Null /\ r.taken
                          THEN The(r.context.lastAttackResult).error
                          ELSE "", r)
        /\ \/ mailbox' = << >>
           \/ /\ r.g.notes # << >>
              /\ \E event \in ReentrantEvents : mailbox' = << event >>
    /\ UNCHANGED match

\* the event an observer sent during the attack is processed next
Flush ==
    /\ mailbox # << >>
    /\ \E r \in {Send(Head(mailbox))} :
        /\ Commit(r)
        /\ last' = Report("", r)
    /\ mailbox' = Tail(mailbox)
    /\ UNCHANGED match

\* cancelPlan()
CancelPlan ==
    /\ mailbox = << >>
    /\ \E r \in {Send(CANCEL_PLAN)} :
        /\ Commit(r)
        /\ last' = Report("", r)
    /\ UNCHANGED <<mailbox, match>>

\* resetMatch()
ResetMatch ==
    /\ mailbox = << >>
    /\ \E r \in {Send(RESET)} :
        /\ Commit(r)
        /\ last' = Report("", r)
    /\ UNCHANGED <<mailbox, match>>

\* setRuleSet(ruleSet)
SetRuleSet(ruleSet) ==
    /\ mailbox = << >>
    /\ \E r \in {Send(SET_RULESET(ruleSet))} :
        /\ Commit(r)
        /\ last' = Report("", r)
    /\ UNCHANGED <<mailbox, match>>

\* The turn cycle of the Match that drives the engine itself, without the
\* machine: k = [g, ruleSet, checks] holds the engine with the callbacks
\* fired, the rule set, and how often ruleSet.checkGameOver was consulted

\* Match.checkGameOver
MatchCheckGameOver(k) ==
    IF getState(k.g.e).isGameOver THEN k
    ELSE Let(checkGameOver(k.ruleSet, getState(k.g.e)), LAMBDA decision :
            [k EXCEPT !.checks = @ + 1,
                      !.g = IF decision.isGameOver /\ decision.winner # "null"
                            THEN setGameOver(k.g, decision.winner)
                            ELSE k.g])

\* phaseAttackPattern: the pattern is executed, then checkGameOver() is called
phaseAttackPattern(k, centerX, centerY, pattern, isPlayerShot) ==
    Let(executeShotPattern(k.g, centerX, centerY, pattern, isPlayerShot),
        LAMBDA patternResult :
            [k |-> MatchCheckGameOver([k EXCEPT !.g = patternResult.g]),
             r |-> patternResult.r])

\* the engine's onTurnChange as the Match constructor sets it: checkGameOver()
\* first, then the observer's onTurnChange
onTurnChange(k) ==
    Let(MatchCheckGameOver(k), LAMBDA checked :
        [checked EXCEPT !.g = Notify(@, "turn")])

\* engine.toggleTurn() of that engine: the turn is set, onTurnChange runs,
\* then the state snapshot is delivered
MatchToggleTurn(k) ==
    Let(onTurnChange([k EXCEPT !.g.e.currentTurn =
                        IF @ = "PLAYER_TURN" THEN "ENEMY_TURN" ELSE "PLAYER_TURN"]),
        LAMBDA turned : [turned EXCEPT !.g = notifyStateChange(@)])

\* the syntheticShotResult of phaseTurnPattern: one result that is a hit if
\* any shot of the pattern hit and destroys a ship if any shot did
syntheticShotResult(attackResult) ==
    [attackResult EXCEPT !.shots =
        << Entry(0, 0,
                 \E i \in DOMAIN attackResult.shots : attackResult.shots[i].hit,
                 undefined,
                 \E i \in DOMAIN attackResult.shots :
                     attackResult.shots[i].shipDestroyed,
                 TRUE, "", undefined, undefined, FALSE, undefined, FALSE) >>]

\* phaseTurnPattern: decideTurn, and toggleTurn() if the decision says so
phaseTurnPattern(k, attackResult) ==
    Let(decideTurn(k.ruleSet, syntheticShotResult(attackResult), getState(k.g.e)),
        LAMBDA decision :
            IF decision.shouldToggleTurn THEN MatchToggleTurn(k) ELSE k)

\* Match.confirmAttack of a pending plan: phase 2, then phase 3 if it succeeded
MatchConfirmAttack(k, plan) ==
    Let(phaseAttackPattern(k, plan.centerX, plan.centerY, plan.pattern,
                           plan.isPlayerShot),
        LAMBDA attack :
            IF ~attack.r.success THEN attack.k
            ELSE phaseTurnPattern(attack.k, attack.r))

\* how often resolveTurn consults ruleSet.checkGameOver
resolveTurnChecks(m) ==
    IF m.context.lastAttackResult = Null THEN 0
    ELSE
    Let(decideTurn(m.context.ruleSet, The(m.context.lastAttackResult),
                   getState(m.g.e)), LAMBDA lastTurnDecision :
    Let(IF lastTurnDecision.shouldToggleTurn THEN toggleTurn(m.g) ELSE m.g,
        LAMBDA g1 :
            IF ~getState(g1.e).isGameOver THEN 1 ELSE 0))

\* The calls as functions of the machine snapshot m they start from: the
\* snapshot they leave, and what they return

\* planShot: PlanPhaseResult.ready and .error
planShot(m, centerX, centerY, pattern, isPlayerShot) ==
    Let(Settle(Transition(m, PLAN_SHOT(centerX, centerY, pattern, isPlayerShot))),
        LAMBDA r :
            [m |-> r,
             ready |-> r.context.planError = "null",
             error |-> IF r.context.planError = "null" THEN ""
                       ELSE r.context.planError])

\* the fields of MatchShotPatternResult that planAndAttack hands on
MatchResult(success, error, gameOver, turnEnded, canShootAgain) ==
    [success |-> success, error |-> error, isGameOver |-> gameOver,
     turnEnded |-> turnEnded, canShootAgain |-> canShootAgain]

\* what confirmAttack returns after CONFIRM_ATTACK was processed
AttackOutcome(r) ==
    IF r.taken /\ r.context.lastAttackResult # Null
                /\ r.context.lastTurnDecision # Null
    THEN MatchResult(The(r.context.lastAttackResult).success,
                     The(r.context.lastAttackResult).error,
                     r.g.e.isGameOver,
                     The(r.context.lastTurnDecision).shouldEndTurn,
                     The(r.context.lastTurnDecision).canShootAgain)
    ELSE MatchResult(FALSE, "Attack failed", r.g.e.isGameOver, FALSE, FALSE)

\* confirmAttack
confirmAttack(m) ==
    IF m.context.pendingPlan = Null
    THEN [m |-> m,
          result |-> MatchResult(FALSE, NoAttackPlanned, m.g.e.isGameOver,
                                 FALSE, FALSE)]
    ELSE Let(Settle(Transition(m, CONFIRM_ATTACK)),
             LAMBDA r : [m |-> r, result |-> AttackOutcome(r)])

\* confirmAttack that runs although the plan was turned down
planAndAttackAlwaysConfirming(m, x, y, isPlayerShot, pattern) ==
    confirmAttack(planShot(m, x, y, pattern, isPlayerShot).m)

\* planAndAttack: planShot, and confirmAttack if the plan is ready
planAndAttack(m, x, y, isPlayerShot, pattern) ==
    Let(planShot(m, x, y, pattern, isPlayerShot), LAMBDA planResult :
        IF ~planResult.ready
        THEN [m |-> planResult.m,
              result |-> MatchResult(FALSE, planResult.error, FALSE, FALSE, FALSE)]
        ELSE confirmAttack(planResult.m))

Next ==
    \/ \E setup \in Setups, initialTurn \in Turns :
            InitializeMatch(setup, initialTurn)
    \/ \E center \in Centers, pattern \in Patterns, isPlayerShot \in BOOLEAN :
            PlanShot(center[1], center[2], pattern, isPlayerShot)
    \/ ConfirmWithoutPlan
    \/ ConfirmAttack
    \/ Flush
    \/ CancelPlan
    \/ ResetMatch
    \/ \E ruleSet \in RuleSets : SetRuleSet(ruleSet)

Spec == Init /\ [][Next]_vars

-----------------------------------------------------------------------------
(* GameEngine: the public calls of an engine used without a coordinator    *)

\* shot histories a caller may load: the empty one, which clears the side's shots
Histories == { << >> }

\* the hits counted on the ships of both fleets
TotalHits(e) ==
    LET Sum(hits) == IF DOMAIN hits = {} THEN 0
                     ELSE Cardinality(UNION {{<<id, n>> : n \in 1 .. hits[id]} :
                                                id \in DOMAIN hits})
    IN  Sum(e.playerShipHits) + Sum(e.enemyShipHits)

\* centers of the attacks made on the engine: a corner, and the cells of the items
EngineCenters == { <<0, 0>>, <<0, 1>>, <<1, 1>> }

\* a call of the engine: the actor is not involved
EngineCall(g, error) ==
    /\ engine' = g.e
    /\ last' = [error |-> error, trace |-> << >>, notes |-> g.notes]
    /\ UNCHANGED <<value, context, mailbox, match>>

\* engine.initializeGame(playerShips, enemyShips, initialTurn, playerItems, enemyItems)
EngineInitializeGame(setup, initialTurn) ==
    \E g \in {initializeGame([e |-> engine, notes |-> << >>],
                              setup.playerShips, setup.enemyShips, initialTurn,
                              PlayerItems, EnemyItems)} :
        EngineCall(g, "")

\* engine.executeShotPattern(centerX, centerY, pattern, isPlayerShot)
EngineExecuteShotPattern(centerX, centerY, pattern, isPlayerShot) ==
    /\ engine.shotCount < MaxShots
    /\ \E res \in {executeShotPattern([e |-> engine, notes |-> << >>],
                                       centerX, centerY, pattern, isPlayerShot)} :
            EngineCall(res.g, res.r.error)

\* engine.setPlayerShots(shots); a history is loaded over shots made, on a
\* board where no ship is hit (hit counters are not recomputed by a reload, so
\* re-shooting a ship's cell after one would raise them without bound)
EngineSetPlayerShots(shots) ==
    /\ engine.playerShotsMap # EmptyMap
    /\ TotalHits(engine) = 0
    /\ EngineCall(setPlayerShots([e |-> engine, notes |-> << >>], shots), "")

\* engine.setEnemyShots(shots)
EngineSetEnemyShots(shots) ==
    /\ engine.enemyShotsMap # EmptyMap
    /\ TotalHits(engine) = 0
    /\ EngineCall(setEnemyShots([e |-> engine, notes |-> << >>], shots), "")

\* engine.resetGame()
EngineResetGame ==
    \E g \in {resetGame([e |-> engine, notes |-> << >>])} : EngineCall(g, "")

EngineNext ==
    \/ \E setup \in Setups : EngineInitializeGame(setup, "PLAYER_TURN")
    \/ \E center \in EngineCenters, pattern \in Patterns \cup {DOUBLE_TAP},
          isPlayerShot \in BOOLEAN :
            EngineExecuteShotPattern(center[1], center[2], pattern, isPlayerShot)
    \/ \E shots \in Histories : EngineSetPlayerShots(shots)
    \/ \E shots \in Histories : EngineSetEnemyShots(shots)
    \/ EngineResetGame

EngineSpec == Init /\ [][EngineNext]_vars

\* Winner
Winners == {"player", "enemy"}

\* engine.getInternalAPI().toggleTurn()
EngineToggleTurn ==
    \E g \in {toggleTurn([e |-> engine, notes |-> << >>])} : EngineCall(g, "")

\* engine.getInternalAPI().setGameOver(winner)
EngineSetGameOver(winner) ==
    \E g \in {setGameOver([e |-> engine, notes |-> << >>], winner)} :
        EngineCall(g, "")

\* an engine driven through its public calls and its internal API
InternalNext ==
    \/ EngineNext
    \/ EngineToggleTurn
    \/ \E winner \in Winners : EngineSetGameOver(winner)

InternalSpec == Init /\ [][InternalNext]_vars

-----------------------------------------------------------------------------
(* The Match that drives its engine itself, given the commands the actor   *)
(* is given                                                                *)

\* Match.initializeMatch on mt = [e, pendingPlan, ruleSet, error]
MatchInitializeMatch(mt, setup, initialTurn) ==
    [mt EXCEPT !.e = initializeGame([e |-> mt.e, notes |-> << >>],
                                    setup.playerShips, setup.enemyShips,
                                    initialTurn, << >>, << >>).e,
               !.error = ""]

\* Match.planShot
MatchPlanShot(mt, centerX, centerY, pattern, isPlayerShot) ==
    IF ~isValidPosition(centerX, centerY)
    THEN [mt EXCEPT !.error = "Invalid position"]
    ELSE IF pattern.id = "single" /\ isCellShot(mt.e, centerX, centerY, isPlayerShot)
    THEN [mt EXCEPT !.error = "Cell already shot"]
    ELSE [mt EXCEPT !.pendingPlan = Some([centerX |-> centerX, centerY |-> centerY,
                                          pattern |-> pattern,
                                          isPlayerShot |-> isPlayerShot]),
                    !.error = ""]

\* Match.confirmAttack
MatchConfirm(mt) ==
    IF mt.pendingPlan = Null THEN [mt EXCEPT !.error = NoAttackPlanned]
    ELSE
    Let(The(mt.pendingPlan), LAMBDA plan :
    Let(phaseAttackPattern([g |-> [e |-> mt.e, notes |-> << >>],
                            ruleSet |-> mt.ruleSet, checks |-> 0],
                           plan.centerX, plan.centerY, plan.pattern,
                           plan.isPlayerShot), LAMBDA attack :
    Let(IF ~attack.r.success THEN attack.k
        ELSE phaseTurnPattern(attack.k, attack.r), LAMBDA k :
        [mt EXCEPT !.e = k.g.e, !.pendingPlan = Null,
                   !.error = attack.r.error])))

\* Match.cancelPlan
MatchCancelPlan(mt) == [mt EXCEPT !.pendingPlan = Null, !.error = ""]

\* Match.resetMatch
MatchResetMatch(mt) ==
    [mt EXCEPT !.e = resetGame([e |-> mt.e, notes |-> << >>]).e, !.error = ""]

\* each command is given to the actor and to the Match alike

BothInitialize(setup, initialTurn) ==
    /\ mailbox = << >>
    /\ \E r \in {Send(INITIALIZE(setup, initialTurn))} :
        /\ Commit(r)
        /\ last' = [Report("", r) EXCEPT !.notes = Append(@, "matchStart")]
    /\ match' = MatchInitializeMatch(match, setup, initialTurn)
    /\ UNCHANGED mailbox

BothPlan(centerX, centerY, pattern, isPlayerShot) ==
    /\ mailbox = << >>
    /\ \E r \in {Send(PLAN_SHOT(centerX, centerY, pattern, isPlayerShot))} :
        /\ Commit(r)
        /\ last' = Report(IF r.context.planError = "null" THEN ""
                          ELSE r.context.planError, r)
    /\ match' = MatchPlanShot(match, centerX, centerY, pattern, isPlayerShot)
    /\ UNCHANGED mailbox

BothConfirm ==
    /\ mailbox = << >>
    /\ engine.shotCount < MaxShots
    /\ match.e.shotCount < MaxShots
    /\ \E r \in {Send(CONFIRM_ATTACK)} :
        /\ Commit(r)
        /\ last' = Report(IF context.pendingPlan = Null THEN NoAttackPlanned
                          ELSE IF r.context.lastAttackResult # Null /\ r.taken
                          THEN The(r.context.lastAttackResult).error
                          ELSE "", r)
    /\ match' = MatchConfirm(match)
    /\ UNCHANGED mailbox

BothCancel ==
    /\ mailbox = << >>
    /\ \E r \in {Send(CANCEL_PLAN)} :
        /\ Commit(r)
        /\ last' = Report("", r)
    /\ match' = MatchCancelPlan(match)
    /\ UNCHANGED mailbox

BothReset ==
    /\ mailbox = << >>
    /\ \E r \in {Send(RESET)} :
        /\ Commit(r)
        /\ last' = Report("", r)
    /\ match' = MatchResetMatch(match)
    /\ UNCHANGED mailbox

BothNext ==
    \/ \E setup \in Setups, initialTurn \in Turns :
            BothInitialize(setup, initialTurn)
    \/ \E center \in Centers, pattern \in Patterns, isPlayerShot \in BOOLEAN :
            BothPlan(center[1], center[2], pattern, isPlayerShot)
    \/ BothConfirm
    \/ BothCancel
    \/ BothReset

BothSpec == Init /\ [][BothNext]_vars

-----------------------------------------------------------------------------
(* A match played to its end, as runSimulation plays it: one planAndAttack *)
(* after the other, for as long as the coordinator accepts them            *)

\* match.planAndAttack(x, y, isPlayerShot, pattern)
PlayAttack(x, y, isPlayerShot, pattern) ==
    /\ mailbox = << >>
    /\ \E call \in {planAndAttack(Snapshot, x, y, isPlayerShot, pattern)} :
        /\ Commit(call.m)
        /\ last' = Report(call.result.error, call.m)
    /\ UNCHANGED <<mailbox, match>>

PlayNext ==
    \/ \E setup \in Setups, initialTurn \in Turns :
            InitializeMatch(setup, initialTurn)
    \/ \E center \in Centers, pattern \in Patterns, isPlayerShot \in BOOLEAN :
            PlayAttack(center[1], center[2], isPlayerShot, pattern)
    \/ ResetMatch

PlaySpec == Init /\ [][PlayNext]_vars

-----------------------------------------------------------------------------
(* Properties                                                              *)

\* the step processes an event an observer queued, of one of these types
FlushOf(types) == mailbox # << >> /\ Head(mailbox).type \in types

ResetStep == (mailbox = << >> /\ ResetMatch) \/ FlushOf({"RESET"})
InitializeStep ==
    \/ /\ mailbox = << >>
       /\ \E setup \in Setups, initialTurn \in Turns :
                InitializeMatch(setup, initialTurn)
    \/ FlushOf({"INITIALIZE"})

Sides == BOOLEAN

\* every record of a side's shots is still there, unchanged, after the step
RecordsKept ==
    \A isPlayerShot \in Sides :
        \A c \in DOMAIN ShotsMap(engine, isPlayerShot) :
            /\ c \in DOMAIN ShotsMap(engine', isPlayerShot)
            /\ ShotsMap(engine', isPlayerShot)[c] = ShotsMap(engine, isPlayerShot)[c]

\* a record is stored under the cell it describes: one record per cell
OneRecordPerCell ==
    \A isPlayerShot \in Sides :
        \A c \in DOMAIN ShotsMap(engine, isPlayerShot) :
            /\ ShotsMap(engine, isPlayerShot)[c].x = c[1]
            /\ ShotsMap(engine, isPlayerShot)[c].y = c[2]

\* C1: between two resets each side holds one shot record per cell, and a
\* stored record is never replaced, changed or removed: only a RESET or an
\* INITIALIZE step loses records, so an attack covering an already-shot cell
\* leaves its record as first written.
C1_ShotRecordsAppendOnly ==
    /\ []OneRecordPerCell
    /\ [][(~RecordsKept) => (ResetStep \/ InitializeStep)]_vars

\* the last attack covered a cell shot before: a cross over a single shot's cell
C1_Witness ==
    /\ context.lastAttackResult # Null
    /\ \E i \in DOMAIN The(context.lastAttackResult).shots :
        LET entry == The(context.lastAttackResult).shots[i]
        IN  /\ ~entry.executed
            /\ isValidPosition(entry.x, entry.y)
            /\ \E isPlayerShot \in Sides :
                  /\ <<entry.x, entry.y>> \in DOMAIN ShotsMap(engine, isPlayerShot)
                  /\ ShotsMap(engine, isPlayerShot)[<<entry.x, entry.y>>].patternId
                        = "single"
    /\ \E i \in DOMAIN The(context.lastAttackResult).shots :
        /\ The(context.lastAttackResult).shots[i].executed
        /\ The(context.lastAttackResult).shots[i].patternId = "cross"

\* the ships of one side are all destroyed
FleetDestroyed == areAllShipsDestroyed(engine, TRUE) \/ areAllShipsDestroyed(engine, FALSE)

\* the last step confirmed an attack
Attacked == last.trace # << >> /\ last.trace[1] = "attacking"

C3_GameOverPriority ==
    [][(value # "gameOver" /\ value' = "gameOver") =>
            /\ engine'.isGameOver
            /\ context'.lastTurnDecision =
                    Some(Decision(TRUE, FALSE, FALSE, "Game over"))
            /\ engine'.currentTurn = engine.currentTurn]_vars

\* the attack that ended the match was resolved as "Ship destroyed - turn ends"
C3_Witness ==
    /\ value = "gameOver"
    /\ Attacked
    /\ engine.isGameOver
    /\ The(context.lastTurnDecision).shouldToggleTurn
    /\ The(context.lastTurnDecision).reason # "Game over"

\* how often a callback fired during the last step
Count(notes, kind) == Cardinality({i \in DOMAIN notes : notes[i] = kind})

\* C4: the winner is assigned at most once per match and the game-over
\* notification is delivered at most once: a step delivers it at most once and
\* only with a winner set; once a winner is set no step other than a RESET or
\* an INITIALIZE changes it, and no later step delivers the notification again.
C4_WinnerAssignedOnce ==
    /\ [](/\ Count(last.notes, "gameOver") <= 1
          /\ Count(last.notes, "gameOver") = 1 => engine.winner # "null")
    /\ [][engine.winner # "null" =>
            /\ engine'.winner = engine.winner \/ ResetStep \/ InitializeStep
            /\ Count(last'.notes, "gameOver") = 0]_vars

\* a match with a winner, after a later command that changed nothing
C4_Witness ==
    /\ engine.winner # "null"
    /\ engine.isGameOver
    /\ ~Attacked
    /\ last.notes = << >>

\* the ship with this id in the fleet a side shoots at, and its hit count
TargetShip(shipId, isPlayerShot) == TargetShips(engine, isPlayerShot)[shipId + 1]
hitCount(shipId, isPlayerShot) == Get(TargetHits(engine, isPlayerShot), shipId, 0)
ShipIds(isPlayerShot) == 0 .. (Len(TargetShips(engine, isPlayerShot)) - 1)

C7_ConfirmWithoutPlan ==
    [][ConfirmWithoutPlan =>
            /\ last'.error = NoAttackPlanned
            /\ last'.trace = << >>
            /\ last'.notes = << >>
            /\ value' = value
            /\ engine' = engine]_vars

\* confirmAttack() was called again after an attack had consumed the plan
C7_Witness ==
    /\ last.error = NoAttackPlanned
    /\ value = "planning"
    /\ context.pendingPlan = Null
    /\ context.lastAttackResult # Null
    /\ engine.shotCount > 0

Plan(centerX, centerY, pattern, isPlayerShot) ==
    [centerX |-> centerX, centerY |-> centerY, pattern |-> pattern,
     isPlayerShot |-> isPlayerShot]

\* the attack result is the plan's: one entry per offset of the plan's pattern
\* around the plan's center, executed entries tagged with the plan's pattern
\* and center and recorded for the plan's side, the other side's records kept
ExecutesPlan(plan, result, before, after) ==
    /\ result.success
    /\ Len(result.shots) = Len(plan.pattern.offsets)
    /\ \A i \in DOMAIN result.shots :
        LET entry == result.shots[i]
        IN  /\ entry.x = plan.centerX + plan.pattern.offsets[i][1]
            /\ entry.y = plan.centerY + plan.pattern.offsets[i][2]
            /\ entry.executed =>
                  /\ entry.patternId = plan.pattern.id
                  /\ entry.patternCenterX = plan.centerX
                  /\ entry.patternCenterY = plan.centerY
                  /\ <<entry.x, entry.y>> \in DOMAIN ShotsMap(after, plan.isPlayerShot)
                  /\ <<entry.x, entry.y>>
                        \notin DOMAIN ShotsMap(before, plan.isPlayerShot)
    /\ ShotsMap(after, ~plan.isPlayerShot) = ShotsMap(before, ~plan.isPlayerShot)
    /\ Cardinality(DOMAIN ShotsMap(after, plan.isPlayerShot))
         = Cardinality(DOMAIN ShotsMap(before, plan.isPlayerShot))
           + Cardinality({i \in DOMAIN result.shots : result.shots[i].executed})

\* C8: at most one plan is pending; in Planned, every valid PLAN replaces the
\* pending plan whole (center, pattern and side are the new plan's) and the
\* phase stays Planned, and CONFIRM executes exactly the plan then pending.
C8_ReplanReplaces ==
    /\ Cardinality(context.pendingPlan) <= 1
    /\ (value = "planned" /\ mailbox = << >>) =>
          /\ \A center \in Centers, pattern \in Patterns, isPlayerShot \in Sides :
                LET event == PLAN_SHOT(center[1], center[2], pattern, isPlayerShot)
                    r == Send(event)
                IN  isValidPlan(engine, event) =>
                      /\ r.value = "planned"
                      /\ r.context.pendingPlan =
                            Some(Plan(center[1], center[2], pattern, isPlayerShot))
          /\ LET r == Send(CONFIRM_ATTACK)
             IN  /\ r.context.pendingPlan = Null
                 /\ r.context.lastAttackResult # Null
                 /\ ExecutesPlan(The(context.pendingPlan),
                                 The(r.context.lastAttackResult), engine, r.g.e)

\* Planned after an earlier attack, with a single shot pending that a valid
\* cross of the other side can replace
C8_Witness ==
    /\ value = "planned"
    /\ mailbox = << >>
    /\ engine.shotCount = 1
    /\ context.pendingPlan = Some(Plan(2, 0, SINGLE_SHOT, TRUE))
    /\ isValidPlan(engine, PLAN_SHOT(1, 0, CROSS_SHOT, FALSE))
    /\ ~isValidPlan(engine, PLAN_SHOT(0, 0, SINGLE_SHOT, TRUE))

\* C9: a plan is stored if and only if the phase is Planned: no plan is held
\* in Idle, Planning or GameOver, whichever commands led there.
C9_PlanOnlyWhilePlanned == (context.pendingPlan # Null) <=> (value = "planned")

\* a plan is still stored in Planning
C9_Witness == context.pendingPlan # Null /\ value = "planning"

\* the side of the plan hit a cell it had not shot before
NewHit(before, after, isPlayerShot) ==
    \E c \in DOMAIN ShotsMap(after, isPlayerShot) :
        /\ c \notin DOMAIN ShotsMap(before, isPlayerShot)
        /\ ShotsMap(after, isPlayerShot)[c].hit

\* a ship of the fleet shot at went from not destroyed to destroyed
NewlyDestroyed(before, after, isPlayerShot) ==
    \E shipId \in ShipIds(isPlayerShot) :
        /\ isShipDestroyed(after, shipId, isPlayerShot)
        /\ ~isShipDestroyed(before, shipId, isPlayerShot)

\* C10: under ClassicRuleSet, for every attack resolved in a match that is not
\* over: with no executed hit, or with a ship destroyed, the turn ends and the
\* turn flag toggles; with an executed hit and no ship destroyed the turn does
\* not end, the turn flag stays and the same side may act again.
C10_ClassicTurns ==
    (value = "planned" /\ mailbox = << >> /\ context.ruleSet = "Classic") =>
        LET isPlayerShot == The(context.pendingPlan).isPlayerShot
            r == Send(CONFIRM_ATTACK)
            after == r.g.e
            decision == The(r.context.lastTurnDecision)
        IN  (r.context.lastTurnDecision # Null /\ ~after.isGameOver) =>
              IF ~NewHit(engine, after, isPlayerShot)
                 \/ NewlyDestroyed(engine, after, isPlayerShot)
              THEN /\ decision.shouldEndTurn
                   /\ ~decision.canShootAgain
                   /\ after.currentTurn # engine.currentTurn
              ELSE /\ ~decision.shouldEndTurn
                   /\ decision.canShootAgain
                   /\ after.currentTurn = engine.currentTurn

\* Planned under ClassicRuleSet with one cell of the enemy's 2x1 ship hit and
\* a shot at its other cell pending: the attack destroys it, the match goes on
C10_Witness ==
    /\ value = "planned"
    /\ mailbox = << >>
    /\ context.ruleSet = "Classic"
    /\ hitCount(0, TRUE) = 1
    /\ The(context.lastTurnDecision).canShootAgain
    /\ context.pendingPlan = Some(Plan(1, 0, SINGLE_SHOT, TRUE))
    /\ ~isCellShot(engine, 1, 0, TRUE)

\* C11: under AlternatingTurnsRuleSet, every attack resolved in a match that is
\* not over ends the turn, grants no further action and toggles the turn flag
\* exactly once (one turn notification, the flag is the other side's), whether
\* the attack hit, missed or destroyed a ship: so over a sequence of resolved
\* attacks the turn flag alternates.
C11_AlternatingTurns ==
    (value = "planned" /\ mailbox = << >> /\ context.ruleSet = "Alternating") =>
        LET r == Send(CONFIRM_ATTACK)
            after == r.g.e
            decision == The(r.context.lastTurnDecision)
        IN  (r.context.lastTurnDecision # Null /\ ~after.isGameOver) =>
              /\ decision.shouldEndTurn
              /\ decision.shouldToggleTurn
              /\ ~decision.canShootAgain
              /\ after.currentTurn # engine.currentTurn
              /\ Count(r.g.notes, "turn") = 1

\* Planned under AlternatingTurnsRuleSet after an attack that hit and ended the
\* turn, with a shot pending that hits another ship without destroying it
C11_Witness ==
    /\ value = "planned"
    /\ mailbox = << >>
    /\ context.ruleSet = "Alternating"
    /\ context.lastTurnDecision # Null
    /\ The(context.lastTurnDecision).reason = "Hit - turn ends"
    /\ context.pendingPlan = Some(Plan(2, 0, SINGLE_SHOT, TRUE))
    /\ ~isCellShot(engine, 2, 0, TRUE)
    /\ ~engine.isGameOver

\* the winner the board calls for: the side opposing a destroyed fleet
WinnerOf(e) ==
    IF areAllShipsDestroyed(e, TRUE) THEN "enemy"
    ELSE IF areAllShipsDestroyed(e, FALSE) THEN "player"
    ELSE "null"

\* C12: under both rule sets the match is over if and only if one side's
\* ships are all destroyed, and the winner is the opposing side (player fleet
\* destroyed: enemy; enemy fleet destroyed: player; otherwise none); a CONFIRM
\* in a match that is not over ends it exactly when the attack leaves a fleet
\* destroyed, in that same step, with the phase GameOver.
C12_GameOverIffFleetDestroyed ==
    /\ engine.isGameOver <=> (WinnerOf(engine) # "null")
    /\ engine.winner = WinnerOf(engine)
    /\ (value = "planned" /\ mailbox = << >>) =>
          \A ruleSet \in RuleSets :
            LET r == Settle(Transition(
                        [Snapshot EXCEPT !.context.ruleSet = ruleSet],
                        CONFIRM_ATTACK))
            IN  /\ r.g.e.isGameOver <=> (WinnerOf(r.g.e) # "null")
                /\ r.g.e.winner = WinnerOf(r.g.e)
                /\ (r.value = "gameOver") <=> r.g.e.isGameOver
                /\ Count(r.g.notes, "gameOver") = IF r.g.e.isGameOver THEN 1 ELSE 0

\* the player's attack destroyed the last enemy ship: the match is over in that
\* step and the player wins
C12_Witness ==
    /\ value = "gameOver"
    /\ last.trace = <<"attacking", "resolvingTurn", "gameOver">>
    /\ areAllShipsDestroyed(engine, FALSE)
    /\ ~areAllShipsDestroyed(engine, TRUE)
    /\ engine.winner = "player"
    /\ Count(last.notes, "gameOver") = 1

\* a GameEngine call starts from the engine as it is, no callback fired yet
Engine == [e |-> engine, notes |-> << >>]

\* the cell offset i of a pattern names around a center
Target(center, pattern, i) ==
    <<center[1] + pattern.offsets[i][1], center[2] + pattern.offsets[i][2]>>

\* offset i names a cell inside the board that the side has not shot when the
\* loop reaches it: not before the call and not by an earlier offset
Fresh(e, center, pattern, i, isPlayerShot) ==
    /\ isValidPosition(Target(center, pattern, i)[1], Target(center, pattern, i)[2])
    /\ Target(center, pattern, i) \notin DOMAIN ShotsMap(e, isPlayerShot)
    /\ \A j \in 1 .. (i - 1) : Target(center, pattern, j) # Target(center, pattern, i)

\* C13: in a match that is not over, for every center, pattern and side,
\* executeShotPattern succeeds and returns one entry per offset, in offset
\* order, each at the offset's cell; an entry is executed exactly when its
\* cell is inside the board and not yet shot by that side when it is reached,
\* so offsets out of bounds or already shot do not abort the pattern and
\* every other offset is executed and recorded.
C13_PartialExecution ==
    ~engine.isGameOver =>
        \A center \in Positions, pattern \in Patterns \cup {DOUBLE_TAP},
           isPlayerShot \in Sides :
            LET res == executeShotPattern(Engine, center[1], center[2], pattern,
                                          isPlayerShot)
            IN  /\ res.r.success
                /\ Len(res.r.shots) = Len(pattern.offsets)
                /\ \A i \in DOMAIN res.r.shots :
                      /\ <<res.r.shots[i].x, res.r.shots[i].y>>
                            = Target(center, pattern, i)
                      /\ res.r.shots[i].executed
                            <=> Fresh(engine, center, pattern, i, isPlayerShot)
                      /\ res.r.shots[i].executed =>
                            Target(center, pattern, i)
                                \in DOMAIN ShotsMap(res.g.e, isPlayerShot)

\* a cross at the corner (0,0) was resolved over a single shot made there
\* before: of its five offsets the two inside the board and not yet shot were
\* executed, and nothing else is recorded for the side
C13_Witness ==
    /\ DOMAIN engine.playerShotsMap = { <<0, 0>>, <<1, 0>>, <<0, 1>> }
    /\ engine.playerShotsMap[<<0, 0>>].patternId = "single"
    /\ engine.playerShotsMap[<<1, 0>>].patternId = "cross"
    /\ engine.playerShotsMap[<<0, 1>>].patternId = "cross"
    /\ engine.shotCount = 3
    /\ ~engine.isGameOver

\* the entries of a pattern result that were executed
ExecutedEntries(shots) == {i \in DOMAIN shots : shots[i].executed}

\* C14: an entry that is out of bounds or already shot changes nothing: the
\* call adds one record per executed entry and keeps every record there was,
\* the shot count grows by the number of executed entries, each ship hit
\* counter by the executed hits on that ship and each item counter by the
\* executed collections of that item, so a call that executes nothing leaves
\* the engine as it was; an already-shot entry reports the hit value (and
\* ship) of the stored record, an entry out of bounds reports no hit; no cell
\* is counted twice, also when a pattern names a cell in two offsets: the shot
\* count equals the number of stored records.
C14_SkippedEntriesChangeNothing ==
    /\ engine.shotCount = Cardinality(DOMAIN engine.playerShotsMap)
                            + Cardinality(DOMAIN engine.enemyShotsMap)
    /\ \A center \in Positions, pattern \in Patterns \cup {DOUBLE_TAP},
          isPlayerShot \in Sides :
            LET res == executeShotPattern(Engine, center[1], center[2], pattern,
                                          isPlayerShot)
                after == res.g.e
                shots == res.r.shots
                exec == ExecutedEntries(res.r.shots)
            IN  /\ after.shotCount = engine.shotCount + Cardinality(exec)
                /\ DOMAIN ShotsMap(after, isPlayerShot) =
                        DOMAIN ShotsMap(engine, isPlayerShot)
                            \cup {Target(center, pattern, i) : i \in exec}
                /\ Cardinality(DOMAIN ShotsMap(after, isPlayerShot)) =
                        Cardinality(DOMAIN ShotsMap(engine, isPlayerShot))
                            + Cardinality(exec)
                /\ \A c \in DOMAIN ShotsMap(engine, isPlayerShot) :
                        ShotsMap(after, isPlayerShot)[c]
                            = ShotsMap(engine, isPlayerShot)[c]
                /\ \A id \in 0 .. (Len(TargetShips(engine, isPlayerShot)) - 1) :
                        Get(TargetHits(after, isPlayerShot), id, 0) =
                            Get(TargetHits(engine, isPlayerShot), id, 0)
                            + Cardinality({i \in exec :
                                    shots[i].hit /\ shots[i].shipId = id})
                /\ \A id \in 0 .. (Len(TargetItems(engine, isPlayerShot)) - 1) :
                        Get(TargetItemHits(after, isPlayerShot), id, 0) =
                            Get(TargetItemHits(engine, isPlayerShot), id, 0)
                            + Cardinality({i \in exec :
                                    shots[i].collected /\ shots[i].itemId = id})
                /\ exec = {} => after = engine
                /\ \A i \in (DOMAIN shots) \ exec :
                        IF Target(center, pattern, i)
                                \in DOMAIN ShotsMap(after, isPlayerShot)
                        THEN /\ shots[i].hit =
                                ShotsMap(after, isPlayerShot)[
                                    Target(center, pattern, i)].hit
                             /\ shots[i].shipId =
                                ShotsMap(after, isPlayerShot)[
                                    Target(center, pattern, i)].shipId
                        ELSE ~shots[i].hit

\* the pattern naming its center twice was resolved on the two cells of the
\* enemy's item: two records, two shots and two parts counted, not three
C14_Witness ==
    /\ DOMAIN engine.playerShotsMap = { <<0, 1>>, <<1, 1>> }
    /\ \A c \in DOMAIN engine.playerShotsMap :
            engine.playerShotsMap[c].patternId = "double-tap"
    /\ engine.shotCount = 2
    /\ Get(engine.enemyItemHits, 0, 0) = 2

ShotsKept ==
    \A isPlayerShot \in Sides :
        \A c \in DOMAIN ShotsMap(engine, isPlayerShot) :
            isCellShot(engine', c[1], c[2], isPlayerShot)

\* C16 as stated: once isCellShot(x, y, side) is true it stays true in every
\* later state until reset() is called, whatever commands are issued in
\* between: only a RESET step makes a shot cell unshot.
C16_ShotUntilReset == [][(~ShotsKept) => ResetStep]_vars

\* C16, amended: once isCellShot(x, y, side) is true it stays true until
\* reset() or initialize is called: PLAN, CONFIRM, CANCEL and SET_RULESET
\* never make a shot cell unshot, a RESET or an INITIALIZE step clears the
\* shots of both sides.
C16_ShotUntilResetOrInitialize ==
    [][/\ (~ShotsKept) => (ResetStep \/ InitializeStep)
       /\ (InitializeStep /\ value # "gameOver") =>
            engine'.playerShotsMap = EmptyMap /\ engine'.enemyShotsMap = EmptyMap
      ]_vars

\* an attack has shot cells and an observer has sent INITIALIZE meanwhile: the
\* match is initialized anew in the next step, with no reset
C16_Witness ==
    /\ value = "planning"
    /\ mailbox # << >>
    /\ Head(mailbox).type = "INITIALIZE"
    /\ engine.playerShotsMap # EmptyMap
    /\ Attacked

\* the items a side may collect, by id, and what is counted for them
ItemIds(isPlayerShot) == 0 .. (Len(TargetItems(engine, isPlayerShot)) - 1)
TargetItem(itemId, isPlayerShot) == TargetItems(engine, isPlayerShot)[itemId + 1]
collectedCount(e, itemId, isPlayerShot) ==
    Get(TargetItemHits(e, isPlayerShot), itemId, 0)

\* the step resets the board: resetGame or initializeGame
EngineResetStep ==
    EngineResetGame \/ \E setup \in Setups : EngineInitializeGame(setup, "PLAYER_TURN")

\* no item's count went down and no item left the fully collected ones
CollectionKept ==
    \A isPlayerShot \in Sides :
        /\ \A itemId \in ItemIds(isPlayerShot) :
                collectedCount(engine', itemId, isPlayerShot)
                    >= collectedCount(engine, itemId, isPlayerShot)
        /\ TargetCollectedItems(engine, isPlayerShot)
                \subseteq TargetCollectedItems(engine', isPlayerShot)

\* counters belong to items, stay within part, and mark full collection
CollectionBounded ==
    \A isPlayerShot \in Sides :
        /\ DOMAIN TargetItemHits(engine, isPlayerShot) \subseteq ItemIds(isPlayerShot)
        /\ TargetCollectedItems(engine, isPlayerShot) \subseteq ItemIds(isPlayerShot)
        /\ \A itemId \in ItemIds(isPlayerShot) :
              /\ collectedCount(engine, itemId, isPlayerShot)
                    <= TargetItem(itemId, isPlayerShot).part
              /\ itemId \in TargetCollectedItems(engine, isPlayerShot)
                    <=> collectedCount(engine, itemId, isPlayerShot)
                            = TargetItem(itemId, isPlayerShot).part

\* a record or result entry of a miss that carries no collection data
PlainMiss(shot) ==
    /\ ~shot.hit
    /\ ~shot.collected
    /\ shot.itemId = undefined
    /\ ~shot.itemFullyCollected

\* a shot on any unshot cell of a fully collected item is executed, counts
\* nothing for any item and is a plain miss in the result and in the record
FullyCollectedIsNeutral ==
    \A isPlayerShot \in Sides :
        \A itemId \in TargetCollectedItems(engine, isPlayerShot) :
            \A c \in ItemCells(TargetItem(itemId, isPlayerShot)) :
                (isValidPosition(c[1], c[2])
                    /\ ~isCellShot(engine, c[1], c[2], isPlayerShot)) =>
                    LET res == executeShotPattern(Engine, c[1], c[2], SINGLE_SHOT,
                                                  isPlayerShot)
                    IN  /\ res.r.shots[1].executed
                        /\ PlainMiss(res.r.shots[1])
                        /\ PlainMiss(ShotsMap(res.g.e, isPlayerShot)[c])
                        /\ TargetItemHits(res.g.e, isPlayerShot)
                                = TargetItemHits(engine, isPlayerShot)
                        /\ TargetCollectedItems(res.g.e, isPlayerShot)
                                = TargetCollectedItems(engine, isPlayerShot)

TargetItemPositions(isPlayerShot) == ItemPositions(TargetItems(engine, isPlayerShot))

\* what is counted for an item when entry i of a result is reached: the count
\* before the call and the collections of the earlier entries
CountWhenReached(shots, i, itemId, isPlayerShot) ==
    collectedCount(engine, itemId, isPlayerShot)
        + Cardinality({j \in 1 .. (i - 1) :
                          shots[j].collected /\ shots[j].itemId = itemId})

\* what every attack's entries and records say about collection, given for
\* each entry whether its shot is one that collects
CollectionOf(Collects(_, _, _, _)) ==
    \A center \in Positions, pattern \in Patterns \cup {DOUBLE_TAP},
       isPlayerShot \in Sides :
        LET res == executeShotPattern(Engine, center[1], center[2], pattern,
                                      isPlayerShot)
            shots == res.r.shots
        IN  /\ \A i \in DOMAIN shots :
                  LET c == Target(center, pattern, i)
                  IN  /\ shots[i].collected
                            <=> Collects(shots, i, c, isPlayerShot)
                      /\ IF shots[i].collected
                         THEN /\ shots[i].itemId = TargetItemPositions(isPlayerShot)[c]
                              /\ shots[i].itemFullyCollected <=>
                                    CountWhenReached(shots, i, shots[i].itemId,
                                                     isPlayerShot) + 1
                                        = TargetItem(shots[i].itemId,
                                                     isPlayerShot).part
                         ELSE /\ shots[i].itemId = undefined
                              /\ ~shots[i].itemFullyCollected
                      /\ shots[i].executed =>
                            LET shot == ShotsMap(res.g.e, isPlayerShot)[c]
                            IN  /\ shot.collected = shots[i].collected
                                /\ shot.itemId = shots[i].itemId
                                /\ shot.itemFullyCollected
                                        = shots[i].itemFullyCollected
            /\ \A itemId \in ItemIds(isPlayerShot) :
                  collectedCount(res.g.e, itemId, isPlayerShot) =
                      collectedCount(engine, itemId, isPlayerShot)
                      + Cardinality({i \in DOMAIN shots :
                              shots[i].collected /\ shots[i].itemId = itemId})
            /\ \A itemId \in ItemIds(~isPlayerShot) :
                  collectedCount(res.g.e, itemId, ~isPlayerShot) =
                      collectedCount(engine, itemId, ~isPlayerShot)

\* the shot of entry i is executed, misses all ships and lands on a cell of
\* an item of the opposing board
OnItem(shots, i, c, isPlayerShot) ==
    /\ shots[i].executed
    /\ ~shots[i].hit
    /\ c \in DOMAIN TargetItemPositions(isPlayerShot)

\* ... of an item that is not fully collected when the entry is reached
OnOpenItem(shots, i, c, isPlayerShot) ==
    /\ OnItem(shots, i, c, isPlayerShot)
    /\ CountWhenReached(shots, i, TargetItemPositions(isPlayerShot)[c], isPlayerShot)
            < TargetItem(TargetItemPositions(isPlayerShot)[c], isPlayerShot).part

\* C18 as stated: collection happens exactly for an executed shot that misses
\* all ships and lands on a not-yet-shot cell of an item on the opposing
\* board: each such shot sets collected and raises that item's count by one,
\* the shot that brings the count to part, and only that shot, sets
\* itemFullyCollected; a hit never collects, a miss outside every item
\* carries no collection data.
C18_CollectionOnItemCells == CollectionOf(OnItem)

\* C18, amended: as stated, for the cells of an item that is not yet fully
\* collected; a shot on an unshot cell of a fully collected item collects
\* nothing and carries no collection data.
C18_CollectionOnOpenItemCells == CollectionOf(OnOpenItem)

\* the player shot the two cells of the enemy's two-part item: both records
\* say collected, the second alone says fully collected
C18_Witness ==
    /\ DOMAIN engine.playerShotsMap = { <<0, 1>>, <<1, 1>> }
    /\ engine.playerShotsMap[<<0, 1>>].collected
    /\ engine.playerShotsMap[<<0, 1>>].itemId = 0
    /\ ~engine.playerShotsMap[<<0, 1>>].itemFullyCollected
    /\ engine.playerShotsMap[<<1, 1>>].collected
    /\ engine.playerShotsMap[<<1, 1>>].itemFullyCollected
    /\ engine.playerShotsMap[<<1, 1>>].patternId = "single"
    /\ engine.enemyCollectedItems = {0}

\* the PlanError values
PlanErrors == {"Invalid position", "Cell already shot", "Invalid plan"}

\* the plans a caller may make: the patterns of the library and custom ones
PlanPatterns == Patterns \cup CustomPatterns

\* centers of the rejected single shots of the player after which CONFIRM is
\* followed up: one outside the board, one a cell that may be shot already
FollowedUp == { <<0 - 1, 0>>, <<0, 0>> }

\* the machine as a processed event left it, about to take the next event
Resume(r) == [r EXCEPT !.trace = << >>, !.taken = FALSE, !.g.notes = << >>]

RejectedWith(r, error) ==
    /\ r.context.planError = error
    /\ r.context.pendingPlan = context.pendingPlan
    /\ r.value = value

\* C20: in Planning and in Planned, PLAN(center, pattern, side) is rejected
\* with InvalidPosition exactly when the center is outside the board, and with
\* CellAlreadyShot exactly when the center is inside the board and a pattern
\* of a single cell re-targets a cell already shot by that side; every other
\* plan is accepted and stored, a multi-cell pattern centred on an
\* already-shot cell among them, and InvalidPlan is reported for neither.
C20_PlanRejectionCauses ==
    (value \in {"planning", "planned"} /\ mailbox = << >>) =>
        \A center \in Centers, pattern \in PlanPatterns, isPlayerShot \in Sides :
            \A r \in {Send(PLAN_SHOT(center[1], center[2], pattern, isPlayerShot))} :
                IF ~isValidPosition(center[1], center[2])
                THEN RejectedWith(r, "Invalid position")
                ELSE IF Len(pattern.offsets) = 1
                        /\ isCellShot(engine, center[1], center[2], isPlayerShot)
                THEN RejectedWith(r, "Cell already shot")
                ELSE /\ r.context.planError = "null"
                     /\ r.value = "planned"
                     /\ r.context.pendingPlan =
                            Some(Plan(center[1], center[2], pattern, isPlayerShot))

\* Planning with (0,0) shot by the player: a custom pattern of the one cell
\* (0,0) is accepted there, and a custom pattern of two cells that carries
\* the id "single" is rejected with CellAlreadyShot
C20_Witness ==
    /\ value = "planning"
    /\ mailbox = << >>
    /\ isCellShot(engine, 0, 0, TRUE)
    /\ Send(PLAN_SHOT(0, 0, SNIPER, TRUE)).value = "planned"
    /\ Send(PLAN_SHOT(0, 0, SNIPER, TRUE)).context.planError = "null"
    /\ RejectedWith(Send(PLAN_SHOT(0, 0, WIDE_SINGLE, TRUE)), "Cell already shot")

\* C21: CANCEL in Planned discards the pending plan and returns to Planning
\* without touching the board: the engine is as before (so no cell of the
\* cancelled plan is shot and no counter, turn flag or winner has changed), no
\* callback fires, and a confirmAttack() that follows finds no plan, takes no
\* transition and leaves the board as it was before the plan was cancelled.
C21_CancelDiscardsPlan ==
    (value = "planned" /\ mailbox = << >>) =>
        \A r \in {Send(CANCEL_PLAN)} :
            /\ r.value = "planning"
            /\ r.trace = <<"planning">>
            /\ r.context.pendingPlan = Null
            /\ r.context = [context EXCEPT !.pendingPlan = Null, !.planError = "null"]
            /\ r.g.e = engine
            /\ r.g.notes = << >>
            /\ \A c \in {Settle(Transition(Resume(r), CONFIRM_ATTACK))} :
                    /\ ~c.taken
                    /\ c = Resume(r)
                    /\ c.g.e = engine

\* cancelPlan() was just called in Planned, on a board with a shot made: the
\* step entered planning and fired no callback, and no plan is left to confirm
C21_Witness ==
    /\ value = "planning"
    /\ last.trace = <<"planning">>
    /\ last.notes = << >>
    /\ context.pendingPlan = Null
    /\ engine.shotCount > 0
    /\ mailbox = << >>
    /\ ~Send(CONFIRM_ATTACK).taken

\* the other side's turn
Toggled(turn) == IF turn = "PLAYER_TURN" THEN "ENEMY_TURN" ELSE "PLAYER_TURN"

\* every callback of the first kind fired before every callback of the second
Before(notes, first, second) ==
    \A i, j \in DOMAIN notes : (notes[i] = first /\ notes[j] = second) => i < j

GameAlreadyOver(e) ==
    [success |-> FALSE, error |-> "Game is already over", shots |-> << >>,
     isGameOver |-> TRUE, winner |-> e.winner]

\* C23: a pattern attempted after game over returns the failure
\* GameAlreadyOver with an empty shot list and changes nothing: the engine is
\* as before (no shot record, counter, turn flag or winner is modified) and no
\* callback fires, for every center, pattern and side.
C23_NoPatternAfterGameOver ==
    /\ engine.isGameOver =>
          \A center \in Positions, pattern \in PlanPatterns, isPlayerShot \in Sides :
            \A res \in {executeShotPattern(Engine, center[1], center[2], pattern,
                                            isPlayerShot)} :
                /\ res.r = GameAlreadyOver(engine)
                /\ res.g = Engine
    /\ last.error = "Game is already over" => last.notes = << >>

\* a pattern was just attempted on a finished game that has a shot recorded
\* and a cell of the pattern still unshot
C23_Witness ==
    /\ engine.isGameOver
    /\ last.error = "Game is already over"
    /\ engine.shotCount = 1
    /\ engine.playerShips # << >>
    /\ \E isPlayerShot \in Sides :
            /\ ShotsMap(engine, isPlayerShot) # EmptyMap
            /\ ~isCellShot(engine, 1, 1, isPlayerShot)

\* the place of a kind of notification in the order shot, state snapshot,
\* turn, game over
Rank(kind) ==
    IF kind = "shot" THEN 1
    ELSE IF kind = "state" THEN 2
    ELSE IF kind = "turn" THEN 3
    ELSE 4

\* C24: the callbacks fired by one confirmed attack come in the fixed order
\* shot, state snapshot, turn, game over: none of a later kind is delivered
\* before one of an earlier kind; the shot callback fires only if a shot was
\* executed, the turn callback only if the turn was toggled, the game-over
\* callback only if game over was set by this attack.
C24_NotificationOrder ==
    Attacked =>
        /\ \A i, j \in DOMAIN last.notes :
                i < j => Rank(last.notes[i]) <= Rank(last.notes[j])
        /\ Count(last.notes, "shot") > 0 =>
                ExecutedEntries(The(context.lastAttackResult).shots) # {}
        /\ Count(last.notes, "turn") > 0 =>
                The(context.lastTurnDecision).shouldToggleTurn
        /\ Count(last.notes, "gameOver") > 0 => engine.isGameOver

\* a confirmed single shot that missed: the state snapshot was delivered
\* before the shot callback, and another one after the turn callback
C24_Witness ==
    /\ Attacked
    /\ last.notes = <<"state", "shot", "turn", "state">>
    /\ ExecutedEntries(The(context.lastAttackResult).shots) = {1}

\* C25: setGameOver(winner) is idempotent: a call made when the game is
\* already over is a no-op that leaves the winner and the game-over flag as
\* they are and delivers no game-over notification.
C25_SetGameOverIdempotent ==
    [][(engine.isGameOver /\ \E winner \in Winners : EngineSetGameOver(winner)) =>
            /\ engine'.winner = engine.winner
            /\ engine'.isGameOver
            /\ Count(last'.notes, "gameOver") = 0]_vars

\* the game is over with the player as winner, and a call of
\* setGameOver("enemy") made now hands the win to the enemy and notifies again
C25_Witness ==
    /\ engine.isGameOver
    /\ engine.winner = "player"
    /\ Count(last.notes, "gameOver") = 1
    /\ setGameOver(Engine, "enemy").e.winner = "enemy"
    /\ Count(setGameOver(Engine, "enemy").notes, "gameOver") = 1

\* placements handed to INITIALIZE: those of the match played, and the fleets
\* swapped
Placements == Setups \cup { [playerShips |-> FleetTwo, enemyShips |-> FleetOne] }

\* a board on which nothing has happened, holding these placements
FreshBoard(e, setup, initialTurn) ==
    /\ e.playerShips = setup.playerShips
    /\ e.enemyShips = setup.enemyShips
    /\ e.currentTurn = initialTurn
    /\ \A isPlayerShot \in Sides, c \in Positions :
            ~isCellShot(e, c[1], c[2], isPlayerShot)
    /\ e.playerShotsMap = EmptyMap /\ e.enemyShotsMap = EmptyMap
    /\ e.playerShipHits = EmptyMap /\ e.enemyShipHits = EmptyMap
    /\ e.playerItemHits = EmptyMap /\ e.enemyItemHits = EmptyMap
    /\ e.playerCollectedItems = {} /\ e.enemyCollectedItems = {}
    /\ e.shotCount = 0
    /\ ~e.isGameOver
    /\ e.winner = "null"

\* INITIALIZE applied now starts a match on a fresh board, in planning
InitializeStartsFresh ==
    (value \in {"idle", "planning", "planned"} /\ mailbox = << >>) =>
        \A setup \in Placements, initialTurn \in Turns :
            \A r \in {Send(INITIALIZE(setup, initialTurn))} :
                /\ r.value = "planning"
                /\ r.trace = <<"planning">>
                /\ FreshBoard(r.g.e, setup, initialTurn)
                /\ r.g.notes = <<"state">>
                /\ r.context.lastAttackResult = Null
                /\ r.context.lastTurnDecision = Null
                /\ r.context.planError = "null"

\* C27: INITIALIZE moves the coordinator from Idle to Planning with a fresh
\* board holding the given placements: no cell shot for either side, all hit
\* and collection counters zero, game not over, no winner, the turn flag the
\* given starting side; initializeMatch() delivers the match-start
\* notification after the state snapshot; INITIALIZE issued in Planning or in
\* Planned yields the same fresh board in Planning.
C27_InitializeStartsFresh ==
    /\ []InitializeStartsFresh
    /\ [][\A setup \in Setups, initialTurn \in Turns :
            (value # "gameOver" /\ mailbox = << >>
                /\ InitializeMatch(setup, initialTurn)) =>
                    /\ value' = "planning"
                    /\ FreshBoard(engine', setup, initialTurn)
                    /\ last'.notes = <<"state", "matchStart">>]_vars

\* initializeMatch() was just called in Planned with the enemy to start: the
\* plan made for the match before is still stored (C9), the board is fresh
C27_Witness ==
    /\ value = "planning"
    /\ last.trace = <<"planning">>
    /\ last.notes = <<"state", "matchStart">>
    /\ context.pendingPlan # Null
    /\ engine.currentTurn = "ENEMY_TURN"
    /\ FreshBoard(engine, [playerShips |-> FleetOne, enemyShips |-> FleetTwo],
                  "ENEMY_TURN")

\* C28: RESET issued in Planning or in Planned moves the coordinator to Idle
\* with the board cleared: no ships, no items, no shots, zero counters, game
\* not over, no winner; nothing of the turn cycle is kept in the context.
C28_ResetClearsBoard ==
    (value \in {"planning", "planned"} /\ mailbox = << >>) =>
        \A r \in {Send(RESET)} :
            /\ r.value = "idle"
            /\ r.trace = <<"idle">>
            /\ FreshBoard(r.g.e, NoSetup, "PLAYER_TURN")
            /\ r.g.e.playerItems = << >> /\ r.g.e.enemyItems = << >>
            /\ r.g.e = NewEngine
            /\ r.context = [InitialContext EXCEPT !.ruleSet = context.ruleSet]

\* Planned with a shot on the board, a ship hit and the enemy to move: RESET
\* applied here leads to idle
C28_Witness ==
    /\ value = "planned"
    /\ mailbox = << >>
    /\ engine.shotCount > 0
    /\ TotalHits(engine) > 0
    /\ Send(RESET).value = "idle"
    /\ Send(RESET).g.e.playerShips = << >>

\* the attack of the pending plan, made on the board as it is
PlannedAttack ==
    executeShotPattern(Engine, The(context.pendingPlan).centerX,
                       The(context.pendingPlan).centerY,
                       The(context.pendingPlan).pattern,
                       The(context.pendingPlan).isPlayerShot)

\* C29: SET_RULESET in Planning or in Planned replaces the active policy and
\* nothing else: the board (shots, counters, turn flag, game-over flag,
\* winner), the phase and the pending plan are unchanged and no callback
\* fires; the attack confirmed next is resolved by the new policy: its turn
\* decision is the new rule set's decision about that attack.
C29_SetRuleSetSwapsPolicyOnly ==
    (value \in {"planning", "planned"} /\ mailbox = << >>) =>
        \A ruleSet \in RuleSets :
            \A r \in {Send(SET_RULESET(ruleSet))} :
                /\ r.value = value
                /\ r.trace = << >>
                /\ r.g = Engine
                /\ r.context = [context EXCEPT !.ruleSet = ruleSet]
                /\ value = "planned" =>
                    \A c \in {Settle(Transition(Resume(r), CONFIRM_ATTACK))} :
                    \A a \in {PlannedAttack} :
                        /\ c.context.ruleSet = ruleSet
                        /\ c.context.lastAttackResult = Some(a.r)
                        /\ c.context.lastTurnDecision =
                                Some(decideTurn(ruleSet, a.r, getState(a.g.e)))

\* Planned under the classic rules, after an earlier shot, with an attack
\* pending that the alternating rules resolve differently
C29_Witness ==
    /\ value = "planned"
    /\ mailbox = << >>
    /\ context.ruleSet = "Classic"
    /\ engine.shotCount > 0
    /\ Settle(Transition(Resume(Send(SET_RULESET("Alternating"))),
                         CONFIRM_ATTACK)).context.lastTurnDecision
         # Send(CONFIRM_ATTACK).context.lastTurnDecision

\* what two ways of making an attack are compared by: the phase, the board
\* (turn flag and winner with it), the plan left pending, and the success,
\* turnEnded, canShootAgain and isGameOver returned
Outcome(call) ==
    [value |-> call.m.value, e |-> call.m.g.e,
     pendingPlan |-> call.m.context.pendingPlan,
     success |-> call.result.success, turnEnded |-> call.result.turnEnded,
     canShootAgain |-> call.result.canShootAgain,
     isGameOver |-> call.result.isGameOver]

\* the attacks compared, as <<center, pattern, isPlayerShot>>: a center left
\* of the board; single shots of either side at the corner; a cross of the
\* player and a single shot of the enemy on the cell next to it, which holds
\* a ship of either fleet
Attacks ==
    { << <<0 - 1, 0>>, SINGLE_SHOT, TRUE >>,
      << <<0, 0>>, SINGLE_SHOT, TRUE >>,
      << <<0, 0>>, SINGLE_SHOT, FALSE >>,
      << <<1, 0>>, CROSS_SHOT, TRUE >>,
      << <<1, 0>>, SINGLE_SHOT, FALSE >> }

\* planAndAttack compared with planShot followed by confirmAttack, for these
\* attacks, in the states that satisfy the condition
PlanAndAttackIsPlanThenConfirm(Applies(_, _)) ==
    mailbox = << >> =>
        \A attack \in Attacks :
            \A both \in {planAndAttack(Snapshot, attack[1][1], attack[1][2],
                                        attack[3], attack[2])} :
            \A plan \in {planShot(Snapshot, attack[1][1], attack[1][2],
                                   attack[2], attack[3])} :
                /\ Applies(plan, both) =>
                        \A sequence \in {confirmAttack(plan.m)} :
                            Outcome(both) = Outcome(sequence)
                /\ plan.ready => both.m.context.pendingPlan = Null
                /\ ~plan.ready =>
                        /\ ~both.result.success
                        /\ both.m.value = value
                        /\ both.m.g = Engine
                        /\ both.m.context =
                              [context EXCEPT !.planError = plan.m.context.planError]

InAnyState(plan, both) == TRUE
UnlessRejectedOverPlan(plan, both) ==
    plan.ready \/ (context.pendingPlan = Null /\ ~engine.isGameOver)

DirectConfirm ==
    MatchConfirmAttack([g |-> Engine, ruleSet |-> context.ruleSet, checks |-> 0],
                       The(context.pendingPlan))

\* C26: the rule set is the single source of truth for game over and is
\* consulted exactly once per turn resolution: a confirmed attack makes
\* exactly one checkGameOver call, in the machine's resolveTurn and in the
\* Match's own turn cycle alike, and a winner is set only as the rule set's
\* checkGameOver names it.
C26_GameOverCheckedOnce ==
    /\ engine.isGameOver =>
            checkGameOver(context.ruleSet, getState(engine)) =
                [isGameOver |-> TRUE, winner |-> engine.winner]
    /\ (value = "planned" /\ mailbox = << >>) =>
            /\ resolveTurnChecks(Transition(Snapshot, CONFIRM_ATTACK)) = 1
            /\ DirectConfirm.checks = 1

\* Planned with a shot pending that misses: resolveTurn consults the rule set
\* once, the Match's own turn cycle twice (after the attack, and again when
\* the turn changes)
C26_Witness ==
    /\ value = "planned"
    /\ mailbox = << >>
    /\ resolveTurnChecks(Transition(Snapshot, CONFIRM_ATTACK)) = 1
    /\ DirectConfirm.checks = 2
    /\ DirectConfirm.g.e.currentTurn # engine.currentTurn
    /\ ~DirectConfirm.g.e.isGameOver

\* no match has been set up: the engine holds no fleet
NotInitialized == engine.playerShips = << >> /\ engine.enemyShips = << >>

\* C31: a mutator called before initialize (before the first INITIALIZE or
\* after a reset) is guarded: while no match is set up no plan is stored and
\* no shot is recorded, so nothing is ever played against an empty board.
C31_GuardedBeforeInitialize ==
    NotInitialized =>
        /\ context.pendingPlan = Null
        /\ engine.shotCount = 0
        /\ engine.playerShotsMap = EmptyMap
        /\ engine.enemyShotsMap = EmptyMap

\* a pattern was executed on an engine that holds no fleet: the shot is
\* recorded as a miss and no error was reported
C31_Witness ==
    /\ NotInitialized
    /\ engine.shotCount = 1
    /\ last.error = ""
    /\ \E isPlayerShot \in Sides :
            /\ isCellShot(engine, 0, 0, isPlayerShot)
            /\ ~ShotsMap(engine, isPlayerShot)[<<0, 0>>].hit

TurnOf(isPlayerShot) == IF isPlayerShot THEN "PLAYER_TURN" ELSE "ENEMY_TURN"

\* the cells a step adds to a side's shot records
NewCells(before, after, isPlayerShot) ==
    (DOMAIN ShotsMap(after, isPlayerShot)) \ (DOMAIN ShotsMap(before, isPlayerShot))

\* C33: every executed shot is fired by the side that holds the turn: a step
\* adds a shot record for a side only while the turn flag designates that
\* side, and a plan naming the side that does not hold the turn, confirmed,
\* records no shot and leaves the turn flag as it is.
C33_ShotsByTurnHolder ==
    /\ [][\A isPlayerShot \in Sides :
            NewCells(engine, engine', isPlayerShot) # {}
                => engine.currentTurn = TurnOf(isPlayerShot)]_vars
    /\ [](\A isPlayerShot \in Sides :
            (value = "planning" /\ engine.currentTurn # TurnOf(isPlayerShot)) =>
                \A r \in {Settle(Transition(Resume(
                            Send(PLAN_SHOT(2, 0, SINGLE_SHOT, isPlayerShot))),
                            CONFIRM_ATTACK))} :
                    /\ r.g.e.shotCount = engine.shotCount
                    /\ r.g.e.currentTurn = engine.currentTurn)

\* the enemy's plan was confirmed while the turn flag named the player: the
\* enemy's shot is recorded and the turn flag passed to the enemy
C33_Witness ==
    /\ Attacked
    /\ engine.currentTurn = "ENEMY_TURN"
    /\ engine.shotCount = 1
    /\ engine.playerShotsMap = EmptyMap
    /\ DOMAIN engine.enemyShotsMap = {<<2, 0>>}
    /\ last.error = ""


\* commands that leave the turn to the side that holds it
TurnKeepingEvents ==
    { PLAN_SHOT(center[1], center[2], pattern, isPlayerShot) :
        center \in { <<0, 0>>, <<2, 0>>, <<0 - 1, 0>> },
        pattern \in Patterns, isPlayerShot \in Sides }
        \cup { CANCEL_PLAN, SET_RULESET("Classic"), SET_RULESET("Alternating") }

\* C34: for every resolved attack the turn flag changes if and only if the
\* decision reported for it says toggle, and that decision lets the side act
\* again exactly when it does not end the turn; PLAN, CANCEL and SET_RULESET,
\* and every command that is rejected, leave the turn flag as it is.
C34_TurnFlagFollowsDecision ==
    /\ [][(last'.trace # << >> /\ last'.trace[1] = "attacking") =>
            /\ context'.lastTurnDecision # Null
            /\ (engine'.currentTurn # engine.currentTurn)
                    <=> The(context'.lastTurnDecision).shouldToggleTurn
            /\ The(context'.lastTurnDecision).canShootAgain
                    <=> ~The(context'.lastTurnDecision).shouldEndTurn]_vars
    /\ [](/\ \A event \in TurnKeepingEvents :
                Send(event).g.e.currentTurn = engine.currentTurn
          /\ \A event \in ReentrantEvents :
                \A r \in {Send(event)} :
                    ~r.taken => r.g.e.currentTurn = engine.currentTurn)

\* an attack was resolved with a decision that ends the turn and toggles the
\* side: the flag, which named the player, names the enemy, and the match
\* goes on
C34_Witness ==
    /\ Attacked
    /\ value = "planning"
    /\ context.lastTurnDecision # Null
    /\ The(context.lastTurnDecision).shouldToggleTurn
    /\ The(context.lastTurnDecision).shouldEndTurn
    /\ ~The(context.lastTurnDecision).canShootAgain
    /\ engine.currentTurn = "ENEMY_TURN"
    /\ DOMAIN engine.playerShotsMap # {}
    /\ engine.enemyShotsMap = EmptyMap


\* the cells of the board
Cells == (0 .. (boardWidth - 1)) \X (0 .. (boardHeight - 1))

\* what an attack of a side must leave alone: the other side's shot records,
\* the hit counters of the attacker's own fleet and the item counters of the
\* attacker's own board
OtherSideKept(before, after, isPlayerShot) ==
    /\ ShotsMap(after, ~isPlayerShot) = ShotsMap(before, ~isPlayerShot)
    /\ TargetHits(after, ~isPlayerShot) = TargetHits(before, ~isPlayerShot)
    /\ TargetItemHits(after, ~isPlayerShot) = TargetItemHits(before, ~isPlayerShot)
    /\ TargetCollectedItems(after, ~isPlayerShot)
            = TargetCollectedItems(before, ~isPlayerShot)
    /\ \A c \in Cells : isCellShot(after, c[1], c[2], ~isPlayerShot)
                            = isCellShot(before, c[1], c[2], ~isPlayerShot)

\* C35: shots are tracked separately per side: an attack by one side adds
\* records to that side's shot set only, keeps the records that side already
\* had, counts hits on the opposing fleet and collections on the opposing
\* board only, and leaves isCellShot of the other side as it was on every
\* cell, the cells just shot included.
C35_ShotsTrackedPerSide ==
    \A center \in EngineCenters \cup { <<0, 0 - 1>> }, pattern \in Patterns,
       isPlayerShot \in Sides :
        \A r \in {executeShotPattern(Engine, center[1], center[2], pattern,
                                      isPlayerShot)} :
            /\ OtherSideKept(engine, r.g.e, isPlayerShot)
            /\ \A c \in DOMAIN ShotsMap(engine, isPlayerShot) :
                    /\ c \in DOMAIN ShotsMap(r.g.e, isPlayerShot)
                    /\ ShotsMap(r.g.e, isPlayerShot)[c] = ShotsMap(engine, isPlayerShot)[c]
            /\ \A i \in ExecutedEntries(r.r.shots) :
                    /\ isCellShot(r.g.e, r.r.shots[i].x, r.r.shots[i].y, isPlayerShot)
                    /\ isCellShot(r.g.e, r.r.shots[i].x, r.r.shots[i].y, ~isPlayerShot)
                        = isCellShot(engine, r.r.shots[i].x, r.r.shots[i].y, ~isPlayerShot)

\* both sides have shot at (0,0): the player hit the enemy ship there, the
\* enemy missed, and each side's record and counters show its own shot only
C35_Witness ==
    /\ DOMAIN engine.playerShotsMap = {<<0, 0>>}
    /\ DOMAIN engine.enemyShotsMap = {<<0, 0>>}
    /\ engine.playerShotsMap[<<0, 0>>].hit
    /\ ~engine.enemyShotsMap[<<0, 0>>].hit
    /\ DOMAIN engine.enemyShipHits # {}
    /\ engine.playerShipHits = EmptyMap
    /\ engine.shotCount = 2


\* C36: the Match that drives its engine itself and the matchMachine actor
\* are equivalent: given the same sequence of initialize, plan, confirm,
\* cancel and reset commands, they accept or reject each command alike and
\* hold the same board (shot records, hit counters, turn flag, game-over
\* flag, winner) and the same pending plan.
C36_MatchEquivalentToMachine ==
    /\ match.e = engine
    /\ match.pendingPlan = context.pendingPlan
    /\ (match.error = "") <=> (last.error = "")

\* both were initialized and given the same attack, which destroyed the last
\* ship: both report game over, but the actor toggled the turn flag on the
\* finishing shot and the Match did not
C36_Witness ==
    /\ value = "gameOver"
    /\ engine.isGameOver
    /\ match.e.isGameOver
    /\ match.e.winner = engine.winner
    /\ match.e.shotCount = 1
    /\ engine.shotCount = 1
    /\ engine.currentTurn # match.e.currentTurn

\* the number of shots a side has executed
Shots(e, isPlayerShot) == Cardinality(DOMAIN ShotsMap(e, isPlayerShot))

\* C37: termination on a board of boardWidth x boardHeight cells with both
\* fleets non-empty, apart and inside the board: no side ever has more than
\* boardWidth * boardHeight executed shots; every confirmed attack that
\* executes a cell not shot before raises the shot count, which is the number
\* of shots of both sides; and a match that is not over has fewer than
\* boardWidth * boardHeight shots on each side, a side that has shot every
\* cell having ended it. So a match in which every confirmed attack executes
\* a new cell is over after at most 2 * boardWidth * boardHeight of them.
C37_Termination ==
    /\ [](\A isPlayerShot \in Sides :
            /\ Shots(engine, isPlayerShot) <= boardWidth * boardHeight
            /\ (~NotInitialized /\ value # "gameOver")
                    => Shots(engine, isPlayerShot) < boardWidth * boardHeight)
    /\ [](engine.shotCount = Shots(engine, TRUE) + Shots(engine, FALSE))
    /\ [][(/\ last'.trace # << >>
           /\ "attacking" \in {last'.trace[i] : i \in DOMAIN last'.trace}
           /\ ExecutedEntries(The(context'.lastAttackResult).shots) # {})
                => /\ engine'.shotCount > engine.shotCount
                   /\ engine'.shotCount <= 2 * boardWidth * boardHeight]_vars

\* the player has shot every cell of the board, the last of them in an
\* attack that ended the match
C37_Witness ==
    /\ Shots(engine, TRUE) = boardWidth * boardHeight
    /\ value = "gameOver"
    /\ engine.winner = "player"
    /\ Shots(engine, FALSE) > 0
    /\ context.lastAttackResult # Null
    /\ ExecutedEntries(The(context.lastAttackResult).shots) # {}


\* getPlayerShots() / getEnemyShots() of an engine: the side's shot records as
\* a list, here in the order of their cells
History(e, isPlayerShot) ==
    [i \in 1 .. Shots(e, isPlayerShot) |->
        ShotsMap(e, isPlayerShot)[
            CHOOSE c \in DOMAIN ShotsMap(e, isPlayerShot) :
                Cardinality({d \in DOMAIN ShotsMap(e, isPlayerShot) :
                    d[2] * boardWidth + d[1] <= c[2] * boardWidth + c[1]}) = i]]

\* a fresh board with the fleets and items of e
Afresh(e) ==
    initializeGame([e |-> e, notes |-> << >>], e.playerShips, e.enemyShips,
                   "PLAYER_TURN", e.playerItems, e.enemyItems)

\* the shots of a history executed one by one, from the i-th on
RECURSIVE OneByOne(_, _, _, _)
OneByOne(g, shots, i, isPlayerShot) ==
    IF i > Len(shots) THEN g
    ELSE OneByOne(executeShot(g, shots[i].x, shots[i].y, isPlayerShot, FALSE,
                              Null).g,
                  shots, i + 1, isPlayerShot)

\* the history loaded with setPlayerShots or setEnemyShots
Loaded(g, shots, isPlayerShot) ==
    IF isPlayerShot THEN setPlayerShots(g, shots) ELSE setEnemyShots(g, shots)

\* C38: loading a side's shot history with setPlayerShots / setEnemyShots
\* leaves the engine as executing those shots one by one on a fresh board
\* does: the same cells are marked shot for that side, the shot count is the
\* same, and the hit counters of both fleets and the destroyed flags of the
\* opposing ships are those the hits of the history give.
C38_LoadEqualsReplay ==
    \A isPlayerShot \in Sides :
        ~NotInitialized =>
            \A loaded \in {Loaded(Afresh(engine), History(engine, isPlayerShot),
                                  isPlayerShot).e} :
            \A replayed \in {OneByOne(Afresh(engine), History(engine, isPlayerShot),
                                      1, isPlayerShot).e} :
                /\ DOMAIN ShotsMap(loaded, isPlayerShot)
                        = DOMAIN ShotsMap(replayed, isPlayerShot)
                /\ loaded.shotCount = replayed.shotCount
                /\ loaded.playerShipHits = replayed.playerShipHits
                /\ loaded.enemyShipHits = replayed.enemyShipHits
                /\ \A shipId \in 0 .. (Len(TargetShips(engine, isPlayerShot)) - 1) :
                        isShipDestroyed(loaded, shipId, isPlayerShot)
                            = isShipDestroyed(replayed, shipId, isPlayerShot)

\* the player's history holds a hit on an enemy ship: loaded on a fresh
\* board, the hit is counted on the player's own counters and the enemy ship
\* shows no hit
C38_Witness ==
    /\ ~NotInitialized
    /\ isCellShot(engine, 0, 0, TRUE)
    /\ engine.playerShotsMap[<<0, 0>>].hit
    /\ Get(engine.enemyShipHits, 0, 0) = 1
    /\ \A loaded \in {setPlayerShots(Afresh(engine), History(engine, TRUE)).e} :
            /\ Get(loaded.playerShipHits, 0, 0) = 1
            /\ loaded.enemyShipHits = EmptyMap
            /\ isCellShot(loaded, 0, 0, TRUE)


\* C39: every shot record created by a pattern attack stores the attack's
\* pattern id and its exact center as provenance, for every center inside the
\* board and every offset of the pattern, and what is stored is what the
\* attack result reports for that cell.
C39_ProvenanceStored ==
    \A center \in EngineCenters, pattern \in Patterns, isPlayerShot \in Sides :
        \A r \in {executeShotPattern(Engine, center[1], center[2], pattern,
                                      isPlayerShot)} :
            \A i \in ExecutedEntries(r.r.shots) :
                \A shot \in {ShotsMap(r.g.e, isPlayerShot)[<<r.r.shots[i].x,
                                                             r.r.shots[i].y>>]} :
                    /\ shot.patternId = pattern.id
                    /\ shot.patternCenterX = center[1]
                    /\ shot.patternCenterY = center[2]
                    /\ shot.patternId = r.r.shots[i].patternId
                    /\ shot.patternCenterX = r.r.shots[i].patternCenterX
                    /\ shot.patternCenterY = r.r.shots[i].patternCenterY

\* a cross centered on (0,0) was executed: the record of its arm (0,1) names
\* (0,1) as the center of a cross
C39_Witness ==
    /\ last.error = ""
    /\ \E isPlayerShot \in Sides :
        /\ isCellShot(engine, 0, 0, isPlayerShot)
        /\ isCellShot(engine, 0, 1, isPlayerShot)
        /\ ShotsMap(engine, isPlayerShot)[<<0, 0>>].patternId = "cross"
        /\ ShotsMap(engine, isPlayerShot)[<<0, 0>>].patternCenterY = 0
        /\ ShotsMap(engine, isPlayerShot)[<<0, 1>>].patternId = "cross"
        /\ ShotsMap(engine, isPlayerShot)[<<0, 1>>].patternCenterX = 0
        /\ ShotsMap(engine, isPlayerShot)[<<0, 1>>].patternCenterY = 1


====
